---- MODULE Spec2Model ----
(***************************************************************************)
(* Event study engine of quant/event_study.py (class EventStudy).          *)
(*                                                                         *)
(* One EventStudy instance runs run_full_analysis; pc is the position in   *)
(* that method.  Dates are day numbers.  Floating values are modelled as   *)
(* exact rationals <<numerator, denominator>> with a positive denominator; *)
(* an Optional value is <<>> (None) or <<v>>.  A DataFrame is a sequence   *)
(* of rows ordered by date.                                                *)
(***************************************************************************)
EXTENDS Integers, Sequences, FiniteSets, TLC

VARIABLES
    event_date,              \* self.event_timestamp.date()
    estimation_window_days,  \* self.estimation_window_days
    event_window_days,       \* self.event_window_days
    stock_src,               \* what the price provider holds for self.ticker
    market_src,              \* what the price provider holds for self.market_ticker
    calls,                   \* provider calls made so far, in order
    stock_data,              \* self.stock_data   (Optional frame)
    market_data,             \* self.market_data  (Optional frame)
    alpha,                   \* self.alpha        (Optional rational)
    beta,                    \* self.beta         (Optional rational)
    ar,                      \* self.ar           (Optional rational)
    car,                     \* self.car          (Optional rational)
    ar_series,               \* self.ar_series    (Optional series)
    p_value,                 \* self.p_value     (Optional)
    t_statistic,             \* self.t_statistic (Optional)
    est_dates,               \* dates of the observations the regression was fitted on
    ret_ar_series,           \* local ar_series of run_full_analysis (Optional series)
    ret_car,                 \* local car of run_full_analysis (Optional rational)
    test_results,            \* local test_results of run_full_analysis (Optional)
    is_outlier,              \* local is_outlier of run_full_analysis (Optional)
    raised,                  \* exception text caught by run_full_analysis, or <<>>
    steps,                   \* stages of run_full_analysis entered so far, in order
    result,                  \* the returned record, <<>> while running
    pc,                      \* position in run_full_analysis
    significance_level,      \* config.SIGNIFICANCE_LEVEL
    call,                    \* the last method a caller invoked directly, with its
                             \* arguments and what it returned (Optional)
    other                    \* a second EventStudy instance of the process: the
                             \* record of its fields (Optional)

vars == <<event_date, estimation_window_days, event_window_days, stock_src,
          market_src, calls, stock_data, market_data, alpha, beta, ar, car,
          ar_series, p_value, t_statistic, est_dates, ret_ar_series, ret_car,
          test_results, is_outlier, raised, steps, result, pc,
          significance_level, call, other>>

(***************************************************************************)
(* Bounds and program constants                                            *)
(***************************************************************************)
MaxDate == 60                \* last day a price history can hold

MIN_DATA_POINTS == 50        \* fetch_data: len(self.stock_data) >= 50
START_BUFFER_DAYS == 20      \* fetch_data: estimation_window_days + 20
END_BUFFER_DAYS == 5         \* fetch_data: event_window_days + 5
DEFAULT_ESTIMATION_WINDOW == 252
DEFAULT_EVENT_WINDOW == 3

CloseValues == {1, 2}        \* closing prices the histories use

\* Returns are held over one common denominator: the least common multiple
\* of the closing prices, so that (c - p) / p is exact.
Unit == CHOOSE u \in 1..16 :
            /\ \A c \in CloseValues : u % c = 0
            /\ \A v \in 1..(u - 1) : \E c \in CloseValues : v % c # 0

(***************************************************************************)
(* Optional values and rationals                                           *)
(***************************************************************************)
None == <<>>
Some(v) == <<v>>
Get(o) == o[1]

Abs(i) == IF i < 0 THEN -i ELSE i

RECURSIVE Gcd(_, _)
Gcd(a, b) == IF b = 0 THEN a ELSE Gcd(b, a % b)

Lcm(a, b) == (a \div Gcd(a, b)) * b

\* lowest terms, positive denominator
RNorm(q) ==
    LET g == Gcd(Abs(q[1]), q[2])
    IN  IF q[1] = 0 THEN <<0, 1>> ELSE <<q[1] \div g, q[2] \div g>>

REq(p, q) == RNorm(p) = RNorm(q)

RAdd(p, q) ==
    LET l == Lcm(p[2], q[2])
    IN  <<p[1] * (l \div p[2]) + q[1] * (l \div q[2]), l>>

RNeg(p) == <<-p[1], p[2]>>
RSub(p, q) == RAdd(p, RNeg(q))
RMul(p, q) == <<p[1] * q[1], p[2] * q[2]>>
RDivInt(p, n) == <<p[1], p[2] * n>>
RZero == <<0, 1>>

(***************************************************************************)
(* Frames                                                                  *)
(***************************************************************************)
NaN == <<>>

Dates(rows) == {rows[i].date : i \in 1..Len(rows)}

\* df.loc[dates]: the rows of those dates, in index order
Loc(rows, ds) == SelectSeq(rows, LAMBDA r : r.date \in ds)

\* df[-n:]
LastN(rows, n) ==
    IF Len(rows) <= n THEN rows ELSE SubSeq(rows, Len(rows) - n + 1, Len(rows))

\* Close.pct_change(): each row's return from the previous row of the same frame
PctChange(rows) ==
    [i \in 1..Len(rows) |->
        [date   |-> rows[i].date,
         Close  |-> rows[i].Close,
         return |-> IF i = 1 THEN NaN
                    ELSE Some(<<(rows[i].Close - rows[i - 1].Close)
                                   * (Unit \div rows[i - 1].Close), Unit>>)]]

\* df.dropna(subset=['return'])
DropNa(rows) == SelectSeq(rows, LAMBDA r : r.return # NaN)

\* a price history: one close per trading day of lo..hi outside gaps
Hist(lo, hi, gaps, pat) ==
    SelectSeq([i \in 1..(hi - lo + 1) |->
                  [date  |-> lo + i - 1,
                   Close |-> pat[((lo + i - 1) % Len(pat)) + 1]]],
              LAMBDA r : r.date \notin gaps)

\* yf.Ticker(t).history(start, end): the rows with start <= date < end
History(src, start, end) ==
    SelectSeq(src.hist, LAMBDA r : r.date >= start /\ r.date < end)

(***************************************************************************)
(* fetch_data                                                              *)
(***************************************************************************)
\* Variant: both series are requested before either is looked at.
FetchDataBothFirst(e, n, w, ssrc, msrc) ==
    LET estimation_start == e - (n + START_BUFFER_DAYS)
        event_window_end == e + (w + END_BUFFER_DAYS)
        raw_stock  == History(ssrc, estimation_start, event_window_end)
        raw_market == History(msrc, estimation_start, event_window_end)
        stock_ret  == PctChange(raw_stock)
        market_ret == PctChange(raw_market)
        common_dates == Dates(stock_ret) \cap Dates(market_ret)
    IN  IF ssrc.raises
        THEN [ok |-> FALSE, stock |-> None, market |-> None,
              calls |-> <<"stock">>]
        ELSE IF msrc.raises
        THEN [ok |-> FALSE, stock |-> Some(raw_stock), market |-> None,
              calls |-> <<"stock", "market">>]
        ELSE IF raw_stock = <<>> \/ raw_market = <<>>
        THEN [ok |-> FALSE, stock |-> Some(raw_stock),
              market |-> Some(raw_market), calls |-> <<"stock", "market">>]
        ELSE LET s == DropNa(Loc(stock_ret, common_dates))
                 m == DropNa(Loc(market_ret, common_dates))
             IN  [ok |-> Len(s) >= MIN_DATA_POINTS,
                  stock |-> Some(s), market |-> Some(m),
                  calls |-> <<"stock", "market">>]

\* The frames fetch_data leaves in self.stock_data / self.market_data, the
\* provider calls it made and the value it returns.
FetchData(e, n, w, ssrc, msrc) ==
    LET estimation_start == e - (n + START_BUFFER_DAYS)
        event_window_end == e + (w + END_BUFFER_DAYS)
        raw_stock  == History(ssrc, estimation_start, event_window_end)
        raw_market == History(msrc, estimation_start, event_window_end)
        stock_ret  == PctChange(raw_stock)
        market_ret == PctChange(raw_market)
        common_dates == Dates(stock_ret) \cap Dates(market_ret)
    IN  IF ssrc.raises
        THEN [ok |-> FALSE, stock |-> None, market |-> None,
              calls |-> <<"stock">>]
        ELSE IF raw_stock = <<>>
        THEN [ok |-> FALSE, stock |-> Some(raw_stock), market |-> None,
              calls |-> <<"stock">>]
        ELSE IF msrc.raises
        THEN [ok |-> FALSE, stock |-> Some(raw_stock), market |-> None,
              calls |-> <<"stock", "market">>]
        ELSE IF raw_market = <<>>
        THEN [ok |-> FALSE, stock |-> Some(raw_stock),
              market |-> Some(raw_market), calls |-> <<"stock", "market">>]
        ELSE LET s == DropNa(Loc(stock_ret, common_dates))
                 m == DropNa(Loc(market_ret, common_dates))
             IN  [ok |-> Len(s) >= MIN_DATA_POINTS,
                  stock |-> Some(s), market |-> Some(m),
                  calls |-> <<"stock", "market">>]

(***************************************************************************)
(* estimate_expected_return                                                *)
(***************************************************************************)
\* the sum of a sequence of integers, by halves
RECURSIVE SumInt(_)
SumInt(s) ==
    IF Len(s) = 0 THEN 0
    ELSE IF Len(s) = 1 THEN s[1]
    ELSE SumInt(SubSeq(s, 1, Len(s) \div 2))
         + SumInt(SubSeq(s, Len(s) \div 2 + 1, Len(s)))

\* Variant: the estimation window also takes the boundary date.
EstimationSampleInclusive(stock, market, e, n, w) ==
    LET estimation_end == e - w
        estimation_stock  == SelectSeq(stock, LAMBDA r : r.date <= estimation_end)
        estimation_market == SelectSeq(market, LAMBDA r : r.date <= estimation_end)
        cut == Len(estimation_stock) > n
        es == IF cut THEN LastN(estimation_stock, n) ELSE estimation_stock
        em == IF cut THEN LastN(estimation_market, n) ELSE estimation_market
        common_dates == Dates(es) \cap Dates(em)
    IN  [stock_returns  |-> Loc(es, common_dates),
         market_returns |-> Loc(em, common_dates)]

\* the paired return observations the regression is fitted on
EstimationSample(stock, market, e, n, w) ==
    LET estimation_end == e - w
        estimation_stock  == SelectSeq(stock, LAMBDA r : r.date < estimation_end)
        estimation_market == SelectSeq(market, LAMBDA r : r.date < estimation_end)
        cut == Len(estimation_stock) > n
        es == IF cut THEN LastN(estimation_stock, n) ELSE estimation_stock
        em == IF cut THEN LastN(estimation_market, n) ELSE estimation_market
        common_dates == Dates(es) \cap Dates(em)
    IN  [stock_returns  |-> Loc(es, common_dates),
         market_returns |-> Loc(em, common_dates)]

\* sm.OLS(y, sm.add_constant(x)).fit().params over the paired returns.
\* add_constant leaves x alone when it is one nonzero constant column, so
\* params then has a single entry and params[1] is an IndexError; an empty
\* sample makes add_constant raise a ValueError.  When every x is zero the
\* pseudo-inverse solution is (mean(y), 0).
OLS(market_returns, stock_returns) ==
    LET n   == Len(market_returns)
        x   == [i \in 1..n |-> Get(market_returns[i].return)[1]]
        y   == [i \in 1..n |-> Get(stock_returns[i].return)[1]]
        sx  == SumInt(x)
        sy  == SumInt(y)
        sxx == SumInt([i \in 1..n |-> x[i] * x[i]])
        sxy == SumInt([i \in 1..n |-> x[i] * y[i]])
        d   == n * sxx - sx * sx
    IN  IF n = 0
        THEN [raises |-> "zero-size array to reduction operation maximum which has no identity",
              alpha |-> None, beta |-> None]
        ELSE IF d = 0 /\ x[1] # 0
        THEN [raises |-> "index 1 is out of bounds for axis 0 with size 1",
              alpha |-> None, beta |-> None]
        ELSE IF d = 0
        THEN [raises |-> "", alpha |-> Some(<<sy, n * Unit>>),
              beta |-> Some(<<0, 1>>)]
        ELSE [raises |-> "",
              alpha |-> Some(<<sy * sxx - sx * sxy, d * Unit>>),
              beta  |-> Some(<<n * sxy - sx * sy, d>>)]

\* Variant: fewer than 30 paired observations are refused before the fit.
EstimateWithMinimum(stock, market, e, n, w) ==
    LET s == EstimationSample(stock, market, e, n, w)
    IN  IF Len(s.market_returns) < 30
        THEN [raises |-> "InsufficientEstimationData", alpha |-> None, beta |-> None]
        ELSE OLS(s.market_returns, s.stock_returns)

\* what estimate_expected_return does on loaded data
EstimateExpectedReturn(stock, market, e, n, w) ==
    LET s == EstimationSample(stock, market, e, n, w)
    IN  OLS(s.market_returns, s.stock_returns)

(***************************************************************************)
(* calculate_ar                                                            *)
(***************************************************************************)
\* Variant: the window starts after its first day.
EventWindowExclusive(rows, e, w) ==
    SelectSeq(rows, LAMBDA r : r.date > e - w /\ r.date <= e + w)

\* Variant: the window ends at fetch_data's buffered end date.
EventWindowBuffered(rows, e, w) ==
    SelectSeq(rows, LAMBDA r : r.date >= e - w /\ r.date <= e + (w + END_BUFFER_DAYS))

\* df[(df.index.date >= window_start) & (df.index.date <= window_end)]
EventWindow(rows, e, w) ==
    SelectSeq(rows, LAMBDA r : r.date >= e - w /\ r.date <= e + w)

\* Variant: the intercept is left out of the expected return.
AbnormalReturnsNoAlpha(stock_returns, market_returns, a, b) ==
    [i \in 1..Len(stock_returns) |->
        [date  |-> stock_returns[i].date,
         value |-> RSub(Get(stock_returns[i].return),
                        RMul(b, Get(market_returns[i].return)))]]

\* stock_returns - (alpha + beta * market_returns), date by date
AbnormalReturns(stock_returns, market_returns, a, b) ==
    [i \in 1..Len(stock_returns) |->
        [date  |-> stock_returns[i].date,
         value |-> RSub(Get(stock_returns[i].return),
                        RAdd(a, RMul(b, Get(market_returns[i].return))))]]

\* Series.sum(), by halves
RECURSIVE RSum(_)
RSum(series) ==
    IF Len(series) = 0 THEN RZero
    ELSE IF Len(series) = 1 THEN series[1].value
    ELSE RAdd(RSum(SubSeq(series, 1, Len(series) \div 2)),
              RSum(SubSeq(series, Len(series) \div 2 + 1, Len(series))))

RMean(series) == RDivInt(RSum(series), Len(series))

\* Variant: only dates after the event date count.
EventDayArStrict(series, e) ==
    LET later == SelectSeq(series, LAMBDA r : r.date > e)
    IN  IF later # <<>> THEN Head(later).value ELSE RMean(series)

\* the AR of the first date on or after the event date, else the mean
EventDayAr(series, e) ==
    LET later == SelectSeq(series, LAMBDA r : r.date >= e)
    IN  IF later # <<>> THEN Head(later).value ELSE RMean(series)

\* the series calculate_ar returns on loaded data with fitted parameters
CalculateAr(stock, market, a, b, e, w) ==
    LET event_stock  == EventWindow(stock, e, w)
        event_market == EventWindow(market, e, w)
        common_dates == Dates(event_stock) \cap Dates(event_market)
    IN  AbnormalReturns(Loc(event_stock, common_dates),
                        Loc(event_market, common_dates), a, b)

(***************************************************************************)
(* calculate_car                                                           *)
(***************************************************************************)
\* Variant: the mean instead of the sum.
CalculateCarMean(series) == RMean(series)

\* calculate_car(window=None): self.ar_series.sum()
CalculateCar(series) == RSum(series)

\* Variant: the last day of the sub-window is left out.
CarWindowExclusive(series, e, window) ==
    SelectSeq(series, LAMBDA r : r.date >= e - window[1] /\ r.date < e + window[2])

\* self.ar_series[(index.date >= window_start) & (index.date <= window_end)]
CarWindow(series, e, window) ==
    SelectSeq(series, LAMBDA r : r.date >= e - window[1] /\ r.date <= e + window[2])

DATA_NOT_FETCHED == "Data not fetched. Call fetch_data() first."

(***************************************************************************)
(* statistical_test and filter_outliers                                    *)
(***************************************************************************)
RLess(p, q) ==
    LET l == Lcm(p[2], q[2])
    IN  p[1] * (l \div p[2]) < q[1] * (l \div q[2])

RAbs(p) == <<Abs(p[1]), p[2]>>

\* the values in increasing order: each value goes to its rank
Sort(values) ==
    LET n == Len(values)
        rank == [i \in 1..n |->
                    1 + Cardinality({j \in 1..n :
                            \/ RLess(values[j], values[i])
                            \/ (~RLess(values[i], values[j]) /\ j < i)})]
    IN  [k \in 1..n |-> values[CHOOSE i \in 1..n : rank[i] = k]]

\* the middle value of sorted values, or the mean of the two middle values
Middle(s, n) ==
    IF n % 2 = 1 THEN s[(n + 1) \div 2]
    ELSE RDivInt(RAdd(s[n \div 2], s[n \div 2 + 1]), 2)

\* np.median
Median(values) == Middle(Sort(values), Len(values))

Values(series) == [i \in 1..Len(series) |-> series[i].value]

\* np.median(np.abs(ar_values - median_ar))
MadAround(values, med) ==
    Median([i \in 1..Len(values) |-> RAbs(RSub(values[i], med))])

Mad(values) == MadAround(values, Median(values))

\* floor(a * 10^k / b) by long division, for a >= 0 and b > 0
RECURSIVE ScaledFloor(_, _, _)
ScaledFloor(a, b, k) ==
    IF k = 0 THEN a \div b
    ELSE (a \div b) * 10 ^ k + ScaledFloor((a % b) * 10, b, k - 1)

\* For n = 2, 3, ...: 10^4 * 1.4826 * c / sqrt(n), rounded down, with c the
\* two-sided critical value of Student's t on n - 1 degrees of freedom at
\* 0.05 (RatioCrit05) and at 0.01 (RatioCrit01): |t| > c exactly when
\* |median| / mad exceeds that ratio.
RatioCrit05 ==
    <<133206, 36829, 23591, 18408, 15558, 13711, 12394, 11396, 10605, 9960,
      9419, 8959, 8560, 8210, 7900, 7622, 7372, 7145, 6938, 6748, 6573, 6411,
      6260, 6119, 5988, 5864, 5748, 5639, 5536, 5438, 5345, 5257, 5173, 5092,
      5016, 4943, 4873, 4806, 4741, 4679, 4620, 4562, 4507, 4454, 4402, 4353,
      4305, 4258, 4213>>

RatioCrit01 ==
    <<667349, 84954, 43298, 30526, 24405, 20775, 18343, 16582, 15236, 14167,
      13292, 12560, 11935, 11395, 10921, 10502, 10127, 9790, 9484, 9205, 8949,
      8714, 8495, 8293, 8104, 7928, 7763, 7607, 7461, 7322, 7191, 7067, 6949,
      6837, 6730, 6628, 6530, 6437, 6347, 6261, 6179, 6100, 6023, 5950, 5879,
      5810, 5744, 5680, 5619>>

\* The robust t statistic median / (1.4826 * mad / sqrt(n)), kept symbolic:
\* its sign and |median| / mad in lowest terms (0 when mad = 0).  kind tells
\* a finite number from nan and from an infinity.
RobustT(med, mad, n) ==
    IF mad[1] > 0
    THEN [kind  |-> "finite",
          sign  |-> IF med[1] > 0 THEN 1 ELSE IF med[1] < 0 THEN -1 ELSE 0,
          ratio |-> RNorm(<<Abs(med[1]) * (Lcm(med[2], mad[2]) \div med[2]),
                            mad[1] * (Lcm(med[2], mad[2]) \div mad[2])>>),
          n     |-> n]
    ELSE [kind |-> "finite", sign |-> 0, ratio |-> RZero, n |-> n]

TStat(values) == RobustT(Median(values), Mad(values), Len(values))

\* p_val = 2 * (1 - stats.t.cdf(abs(t_stat), n - 1)), as the interval it
\* falls in; stats.t.cdf is nan on 0 degrees of freedom.
PValue(t) ==
    LET r == IF t.ratio[1] \div t.ratio[2] >= 100 THEN 1000000
             ELSE ScaledFloor(t.ratio[1], t.ratio[2], 4)
    IN  IF t.n - 1 <= 0 THEN "nan"
        ELSE IF t.sign = 0 THEN "p=1"
        ELSE IF r > RatioCrit01[t.n - 1] THEN "p<0.01"
        ELSE IF r > RatioCrit05[t.n - 1] THEN "0.01<=p<0.05"
        ELSE "0.05<=p<1"

SIGNIFICANCE_LEVEL == <<5, 100>>   \* config.SIGNIFICANCE_LEVEL = 0.05

\* the levels config.SIGNIFICANCE_LEVEL is given
Levels == {SIGNIFICANCE_LEVEL, <<1, 100>>}

\* p_val < level, for a level of Levels
PBelow(p, level) ==
    CASE p = "p=0"          -> TRUE
      [] p = "p<0.01"       -> TRUE
      [] p = "0.01<=p<0.05" -> ~RLess(level, <<5, 100>>)
      [] OTHER              -> FALSE

\* Variant: the level is the default whatever the configuration holds.
IsSignificantAtDefault(p, level) == PBelow(p, SIGNIFICANCE_LEVEL)

\* is_significant = p_val < config.SIGNIFICANCE_LEVEL
IsSignificant(p, level) == PBelow(p, level)

\* Variant: 1 - p_val without the cap.
ConfidenceUncapped(p) ==
    CASE p = "p<0.01"       -> "0.99<c<1"
      [] p = "p=0"          -> "1.0"
      [] p = "0.01<=p<0.05" -> "0.95<c<=0.99"
      [] p = "0.05<=p<1"    -> "0<c<=0.95"
      [] OTHER              -> "0.0"

\* float(min(1 - p_val if p_val < 1 else 0.0, 0.99)), as the interval it
\* falls in
Confidence(p) ==
    CASE p = "p<0.01"       -> "0.99"
      [] p = "p=0"          -> "0.99"
      [] p = "0.01<=p<0.05" -> "0.95<c<=0.99"
      [] p = "0.05<=p<1"    -> "0<c<=0.95"
      [] OTHER              -> "0.0"

\* the record statistical_test returns from the statistic and its p-value
TestRecord(t, p, level) ==
    [t_statistic |-> t, p_value |-> p,
     is_significant |-> IsSignificant(p, level), confidence |-> Confidence(p)]

RobustRecord(t, level) ==
    [method |-> "robust"] @@ TestRecord(t, PValue(t), level)

\* statistical_test(use_robust=True) on a non-empty series
StatisticalTest(series, level) == RobustRecord(TStat(Values(series)), level)

\* the least common multiple of the denominators of a sequence of values
RECURSIVE LcmAll(_)
LcmAll(values) ==
    IF Len(values) = 0 THEN 1 ELSE Lcm(Head(values)[2], LcmAll(Tail(values)))

\* the greatest common divisor of a sequence of integers, 1 when all are 0
RECURSIVE GcdAll(_)
GcdAll(x) ==
    IF Len(x) = 0 THEN 0
    ELSE IF Len(x) = 1 THEN (IF x[1] = 0 THEN 1 ELSE Abs(x[1]))
    ELSE IF Gcd(Abs(Head(x)), GcdAll(Tail(x))) = 0 THEN 1
    ELSE Gcd(Abs(Head(x)), GcdAll(Tail(x)))

\* For df = 1, 2, ...: 100 * c^2, rounded down, with c the two-sided critical
\* value of Student's t on df degrees of freedom at 0.05 (TSquareCrit05) and
\* at 0.01 (TSquareCrit01).
TSquareCrit05 == <<16144, 1851, 1012, 770, 660, 598, 559, 531, 511, 496>>

TSquareCrit01 == <<405218, 9850, 3411, 2119, 1625, 1374, 1224, 1125, 1056, 1004>>

\* stats.ttest_1samp(ar_values, 0): t = mean / sqrt(var / n) with the sample
\* variance (ddof = 1), kept as its sign and its square
\* (n - 1) * sum(x)^2 / (n * sum(x^2) - sum(x)^2).  One observation gives a
\* nan variance; zero variance gives 0 / 0 = nan for a zero mean and an
\* infinity otherwise.  The values are taken over their common denominator
\* and divided by their common factor, which leaves t as it is.
StandardTStat(values) ==
    LET n   == Len(values)
        l   == LcmAll(values)
        g   == GcdAll([i \in 1..n |-> values[i][1] * (l \div values[i][2])])
        x   == [i \in 1..n |-> (values[i][1] * (l \div values[i][2])) \div g]
        sx  == SumInt(x)
        sxx == SumInt([i \in 1..n |-> x[i] * x[i]])
        d   == n * sxx - sx * sx
        sg  == IF sx > 0 THEN 1 ELSE IF sx < 0 THEN -1 ELSE 0
    IN  IF n = 1 \/ (d = 0 /\ sx = 0)
        THEN [kind |-> "nan", sign |-> 0, square |-> RZero, n |-> n]
        ELSE IF d = 0
        THEN [kind |-> "inf", sign |-> sg, square |-> RZero, n |-> n]
        ELSE [kind |-> "finite", sign |-> sg,
              square |-> RNorm(<<(n - 1) * sx * sx, d>>), n |-> n]

\* the two-sided p-value of ttest_1samp, as the interval it falls in
StandardPValue(t) ==
    LET r == IF t.square[1] \div t.square[2] >= 10000 THEN 1000000
             ELSE ScaledFloor(t.square[1], t.square[2], 2)
    IN  IF t.kind = "nan" THEN "nan"
        ELSE IF t.kind = "inf" THEN "p=0"
        ELSE IF t.sign = 0 THEN "p=1"
        ELSE IF r > TSquareCrit01[t.n - 1] THEN "p<0.01"
        ELSE IF r > TSquareCrit05[t.n - 1] THEN "0.01<=p<0.05"
        ELSE "0.05<=p<1"

StandardRecord(t, level) == TestRecord(t, StandardPValue(t), level)

\* statistical_test(use_robust=False) on a non-empty series
StandardTest(series, level) == StandardRecord(StandardTStat(Values(series)), level)

\* what statistical_test returns for a missing or empty series
NO_SERIES_TEST ==
    [t_statistic |-> [kind |-> "finite", sign |-> 0, ratio |-> RZero, n |-> 0],
     p_value |-> "p=1", is_significant |-> FALSE, confidence |-> "0.0"]

\* self.t_statistic = t_stat; self.p_value = p_val; return {...}
Tested(r) ==
    [ret |-> r, t_statistic |-> Some(r.t_statistic), p_value |-> Some(r.p_value)]

\* Variant: the robust test whatever mode the caller selects.
StatisticalTestCallAlwaysRobust(series_opt, use_robust, level, t_opt, p_opt) ==
    IF series_opt = None \/ Len(Get(series_opt)) = 0
    THEN [ret |-> NO_SERIES_TEST, t_statistic |-> t_opt, p_value |-> p_opt]
    ELSE Tested(StatisticalTest(Get(series_opt), level))

\* statistical_test(use_robust): what it returns and the self.t_statistic and
\* self.p_value it leaves
StatisticalTestCall(series_opt, use_robust, level, t_opt, p_opt) ==
    IF series_opt = None \/ Len(Get(series_opt)) = 0
    THEN [ret |-> NO_SERIES_TEST, t_statistic |-> t_opt, p_value |-> p_opt]
    ELSE Tested(IF use_robust THEN StatisticalTest(Get(series_opt), level)
                ELSE StandardTest(Get(series_opt), level))

OUTLIER_THRESHOLD == 3       \* filter_outliers(threshold=3.0)

\* Variant: a deviation of exactly threshold * MAD is flagged too.
FilterOutliersInclusive(series_opt, ar_opt, threshold) ==
    IF series_opt = None \/ Len(Get(series_opt)) < 3 THEN FALSE
    ELSE LET v   == Values(Get(series_opt))
             med == Median(v)
             mad == Mad(v)
         IN  IF mad[1] = 0 THEN FALSE
             ELSE IF ar_opt = None THEN FALSE
             ELSE ~RLess(RAbs(RSub(Get(ar_opt), med)), RMul(threshold, mad))

\* Variant: the zero-MAD guard is missing.
FilterOutliersNoMadGuard(series_opt, ar_opt, threshold) ==
    IF series_opt = None \/ Len(Get(series_opt)) < 3 THEN FALSE
    ELSE LET v   == Values(Get(series_opt))
             med == Median(v)
             mad == Mad(v)
         IN  IF ar_opt = None THEN FALSE
             ELSE RLess(RMul(threshold, mad), RAbs(RSub(Get(ar_opt), med)))

\* filter_outliers(threshold) on self.ar_series (Optional) and self.ar (Optional)
FilterOutliersAt(series_opt, ar_opt, threshold) ==
    IF series_opt = None \/ Len(Get(series_opt)) < 3 THEN FALSE
    ELSE LET v   == Values(Get(series_opt))
             med == Median(v)
             mad == Mad(v)
         IN  IF mad[1] = 0 THEN FALSE
             ELSE IF ar_opt = None THEN FALSE
             ELSE RLess(RMul(threshold, mad), RAbs(RSub(Get(ar_opt), med)))

\* filter_outliers(): the default threshold
FilterOutliers(series_opt, ar_opt) ==
    FilterOutliersAt(series_opt, ar_opt, <<OUTLIER_THRESHOLD, 1>>)

(***************************************************************************)
(* Result assembly                                                         *)
(***************************************************************************)
\* the digits of a / b after the point, then the remainder: <<floor(a*10^k/b), rest>>
RECURSIVE LongDiv(_, _, _, _)
LongDiv(acc, rem, b, k) ==
    IF k = 0 THEN <<acc, rem>>
    ELSE LongDiv(acc * 10 + (rem * 10) \div b, (rem * 10) % b, b, k - 1)

\* round(x, k): the nearest multiple of 10^-k, ties to even
RoundTo(x, k) ==
    LET q  == RNorm(x)
        a  == Abs(q[1])
        d  == LongDiv(a \div q[2], a % q[2], q[2], k)
        m  == IF 2 * d[2] > q[2] THEN d[1] + 1
              ELSE IF 2 * d[2] = q[2] THEN d[1] + (d[1] % 2)
              ELSE d[1]
    IN  <<IF q[1] < 0 THEN -m ELSE m, 10 ^ k>>

RSign(x) == IF x[1] > 0 THEN 1 ELSE IF x[1] < 0 THEN -1 ELSE 0

\* round(test_results['confidence'], 3), as the interval it falls in
RoundConfidence(c) ==
    CASE c = "0.95<c<=0.99" -> "0.95<=c<=0.99"
      [] c = "0<c<=0.95"    -> "0<=c<=0.95"
      [] OTHER              -> c

\* Variant: the summary tests the p-value against 0.05 whatever the
\* configuration holds.
GenerateSummaryFixedLevel(ar_opt, p_opt, series_opt, level) ==
    IF ar_opt = None THEN [text |-> "Insufficient data for analysis"]
    ELSE [direction |-> IF RSign(Get(ar_opt)) > 0 THEN "Positive" ELSE "Negative",
          magnitude |-> RoundTo(RAbs(RMul(Get(ar_opt), <<100, 1>>)), 2),
          significance |->
              IF p_opt # None /\ PBelow(Get(p_opt), <<5, 100>>)
              THEN <<"Statistically significant (p=", Get(p_opt), "). ">>
              ELSE <<"Not statistically significant. ">>,
          outlier_warning |-> FilterOutliers(series_opt, ar_opt)]

\* _generate_summary(): the parts of the text
GenerateSummary(ar_opt, p_opt, series_opt, level) ==
    IF ar_opt = None THEN [text |-> "Insufficient data for analysis"]
    ELSE [direction |-> IF RSign(Get(ar_opt)) > 0 THEN "Positive" ELSE "Negative",
          magnitude |-> RoundTo(RAbs(RMul(Get(ar_opt), <<100, 1>>)), 2),
          significance |->
              IF p_opt # None /\ PBelow(Get(p_opt), level)
              THEN <<"Statistically significant (p=", Get(p_opt), "). ">>
              ELSE <<"Not statistically significant. ">>,
          outlier_warning |-> FilterOutliers(series_opt, ar_opt)]

\* Variant: the failure record also carries an observation count.
ErrorResultWithCount(e, message) ==
    [ticker |-> "ticker", event_timestamp |-> e, error |-> message,
     ar |-> RZero, car |-> RZero, confidence |-> "0.0", is_significant |-> FALSE,
     num_observations |-> 0]

\* the record run_full_analysis returns when a stage failed
ErrorResult(e, message) ==
    [ticker |-> "ticker", event_timestamp |-> e, error |-> message,
     ar |-> RZero, car |-> RZero, confidence |-> "0.0", is_significant |-> FALSE]

\* Variant: the two-way rule of _generate_summary.
DirectionTwoWay(self_ar) ==
    IF RSign(self_ar) > 0 THEN "positive" ELSE "negative"

\* 'positive' if self.ar > 0 else 'negative' if self.ar < 0 else 'neutral'
Direction(self_ar) ==
    IF RSign(self_ar) > 0 THEN "positive"
    ELSE IF RSign(self_ar) < 0 THEN "negative" ELSE "neutral"

\* the record run_full_analysis builds after the last stage
BuildResult(e, n, a, b, self_ar, c, test, outlier, series, summary) ==
    [ticker |-> "ticker", event_timestamp |-> e, event_date |-> e,
     alpha |-> RoundTo(a, 6), beta |-> RoundTo(b, 4),
     ar |-> RoundTo(self_ar, 6),
     ar_percentage |-> RoundTo(RMul(self_ar, <<100, 1>>), 4),
     car |-> RoundTo(c, 6),
     car_percentage |-> RoundTo(RMul(c, <<100, 1>>), 4),
     t_statistic |-> test.t_statistic,
     p_value |-> test.p_value,
     is_significant |-> test.is_significant,
     confidence |-> RoundConfidence(test.confidence),
     is_outlier |-> outlier,
     num_observations |-> Len(series),
     estimation_window_days |-> n,
     direction |-> Direction(self_ar),
     summary |-> summary]

(***************************************************************************)
(* Inputs                                                                  *)
(***************************************************************************)
\* (estimation_window_days, event_window_days) of the study
Params == {<<DEFAULT_ESTIMATION_WINDOW, DEFAULT_EVENT_WINDOW>>,
           <<45, DEFAULT_EVENT_WINDOW>>, <<25, DEFAULT_EVENT_WINDOW>>, <<5, 23>>}

EventDates == {MaxDate - 30, MaxDate - 16, MaxDate - 8, MaxDate - 2,
               MaxDate + 1, MaxDate + 2, MaxDate + 3, MaxDate + 4}

Source(raises, hist) == [raises |-> raises, hist |-> hist]

StockSources ==
    { Source(TRUE, <<>>),
      Source(FALSE, <<>>),
      Source(FALSE, Hist(1, MaxDate, {}, <<1, 2, 2>>)),
      Source(FALSE, Hist(1, MaxDate, (MaxDate - 11)..(MaxDate - 5), <<1, 2>>)),
      Source(FALSE, Hist(2, MaxDate, {MaxDate - 6}, <<1, 2, 2>>)),
      Source(FALSE, Hist(1, MaxDate, {MaxDate - 54}, <<1, 1, 2>>)),
      Source(FALSE, Hist(3, MaxDate, {}, <<1, 2, 2>>)) }

MarketSources ==
    { Source(TRUE, <<>>),
      Source(FALSE, <<>>),
      Source(FALSE, Hist(1, MaxDate, {}, <<1, 2>>)),
      Source(FALSE, Hist(2, MaxDate, {}, <<1, 2>>)),
      Source(FALSE, Hist(1, MaxDate, {MaxDate - 7}, <<1, 1>>)),
      Source(FALSE, Hist(1, MaxDate, {}, <<2, 1, 1>>)),
      Source(FALSE, Hist(3, MaxDate, {}, <<1, 2>>)) }

(***************************************************************************)
(* run_full_analysis, stage by stage                                       *)
(***************************************************************************)
Init ==
    /\ event_date \in EventDates
    /\ \E prm \in Params :
          /\ estimation_window_days = prm[1]
          /\ event_window_days = prm[2]
    /\ stock_src \in StockSources
    /\ market_src \in MarketSources
    /\ calls = <<>>
    /\ stock_data = None
    /\ market_data = None
    /\ alpha = None
    /\ beta = None
    /\ ar = None
    /\ car = None
    /\ ar_series = None
    /\ p_value = None
    /\ t_statistic = None
    /\ est_dates = None
    /\ ret_ar_series = None
    /\ ret_car = None
    /\ test_results = None
    /\ is_outlier = None
    /\ raised = None
    /\ steps = <<>>
    /\ result = None
    /\ pc = "fetch"
    /\ significance_level \in Levels
    /\ call = None
    /\ other = None

\* what the run is given and never writes
inputs == <<event_date, estimation_window_days, event_window_days,
            stock_src, market_src, significance_level>>

\* state that belongs to no step of the run
outside == <<call, other>>

\* Variant: the handler catches ValueError only, so an IndexError leaves
\* run_full_analysis.
ExceptHandlerValueErrorOnly(e, exc) ==
    IF exc = "index 1 is out of bounds for axis 0 with size 1"
    THEN [pc |-> "raised", result |-> None]
    ELSE [pc |-> "done", result |-> Some(ErrorResult(e, <<"Analysis failed: ", exc>>))]

\* except Exception as e: return {... 'error': f'Analysis failed: {str(e)}' ...}
ExceptHandler(e, exc) ==
    [pc |-> "done", result |-> Some(ErrorResult(e, <<"Analysis failed: ", exc>>))]

\* Variant: the estimator is started whatever the loader returned.
FetchGoesOn ==
    /\ pc = "fetch"
    /\ LET r == FetchData(event_date, estimation_window_days,
                          event_window_days, stock_src, market_src)
       IN  /\ stock_data' = r.stock
           /\ market_data' = r.market
           /\ calls' = calls \o r.calls
           /\ pc' = "estimate"
           /\ result' = None
    /\ steps' = Append(steps, "fetch")
    /\ UNCHANGED <<inputs, outside, alpha, beta, ar, car, ar_series, p_value, t_statistic,
                   est_dates, ret_ar_series, ret_car, test_results, is_outlier,
                   raised>>

\* Step 1: if not self.fetch_data(): return {... 'error': 'Failed to fetch data' ...}
Fetch ==
    /\ pc = "fetch"
    /\ LET r == FetchData(event_date, estimation_window_days,
                          event_window_days, stock_src, market_src)
       IN  /\ stock_data' = r.stock
           /\ market_data' = r.market
           /\ calls' = calls \o r.calls
           /\ pc' = IF r.ok THEN "estimate" ELSE "done"
           /\ result' = IF r.ok THEN None
                        ELSE Some(ErrorResult(event_date, <<"Failed to fetch data">>))
    /\ steps' = Append(steps, "fetch")
    /\ UNCHANGED <<inputs, outside, alpha, beta, ar, car, ar_series, p_value, t_statistic,
                   est_dates, ret_ar_series, ret_car, test_results, is_outlier,
                   raised>>

\* Step 2: alpha, beta = self.estimate_expected_return()
Estimate ==
    /\ pc = "estimate"
    /\ LET smp == EstimationSample(Get(stock_data), Get(market_data), event_date,
                                   estimation_window_days, event_window_days)
           o == EstimateExpectedReturn(Get(stock_data), Get(market_data), event_date,
                                       estimation_window_days, event_window_days)
       IN  /\ est_dates' = Some(Dates(smp.stock_returns))
           /\ IF o.raises # ""
              THEN /\ raised' = Some(o.raises)
                   /\ result' = ExceptHandler(event_date, o.raises).result
                   /\ pc' = ExceptHandler(event_date, o.raises).pc
                   /\ UNCHANGED <<alpha, beta>>
              ELSE /\ alpha' = o.alpha
                   /\ beta' = o.beta
                   /\ pc' = "ar"
                   /\ UNCHANGED <<raised, result>>
    /\ steps' = Append(steps, "estimate")
    /\ UNCHANGED <<inputs, outside, calls, stock_data, market_data, ar, car, ar_series,
                   p_value, t_statistic, ret_ar_series, ret_car, test_results,
                   is_outlier>>

\* Step 3: ar_series = self.calculate_ar(); an empty series ends the run
CalcAr ==
    /\ pc = "ar"
    /\ LET series == CalculateAr(Get(stock_data), Get(market_data), Get(alpha),
                                 Get(beta), event_date, event_window_days)
       IN  /\ ret_ar_series' = Some(series)
           /\ IF Len(series) = 0
              THEN /\ result' = Some(ErrorResult(event_date,
                                                 <<"No data in event window">>))
                   /\ pc' = "done"
                   /\ UNCHANGED <<ar_series, ar>>
              ELSE /\ ar_series' = Some(series)
                   /\ ar' = Some(EventDayAr(series, event_date))
                   /\ pc' = "car"
                   /\ UNCHANGED result
    /\ steps' = Append(steps, "ar")
    /\ UNCHANGED <<inputs, outside, calls, stock_data, market_data, alpha, beta, car,
                   p_value, t_statistic, est_dates, ret_car, test_results,
                   is_outlier, raised>>

\* Step 4: car = self.calculate_car()
CalcCar ==
    /\ pc = "car"
    /\ car' = Some(CalculateCar(Get(ar_series)))
    /\ ret_car' = car'
    /\ pc' = "test"
    /\ steps' = Append(steps, "car")
    /\ UNCHANGED <<inputs, outside, calls, stock_data, market_data, alpha, beta, ar,
                   ar_series, p_value, t_statistic, est_dates, ret_ar_series,
                   test_results, is_outlier, raised, result>>

\* Step 5: test_results = self.statistical_test(use_robust=True)
Test ==
    /\ pc = "test"
    /\ \E t \in {StatisticalTestCall(ar_series, TRUE, significance_level,
                                       t_statistic, p_value)} :
           /\ test_results' = Some(t.ret)
           /\ t_statistic' = t.t_statistic
           /\ p_value' = t.p_value
    /\ pc' = "outlier"
    /\ steps' = Append(steps, "test")
    /\ UNCHANGED <<inputs, outside, calls, stock_data, market_data, alpha, beta, ar, car,
                   ar_series, est_dates, ret_ar_series, ret_car, is_outlier,
                   raised, result>>

\* Step 6: is_outlier = self.filter_outliers()
Outlier ==
    /\ pc = "outlier"
    /\ is_outlier' = Some(FilterOutliers(ar_series, ar))
    /\ pc' = "assemble"
    /\ steps' = Append(steps, "outlier")
    /\ UNCHANGED <<inputs, outside, calls, stock_data, market_data, alpha, beta, ar, car,
                   ar_series, p_value, t_statistic, est_dates, ret_ar_series,
                   ret_car, test_results, raised, result>>

\* Build result (with _generate_summary()) and return it
Assemble ==
    /\ pc = "assemble"
    /\ result' = Some(BuildResult(event_date, estimation_window_days, Get(alpha),
                                  Get(beta), Get(ar), Get(ret_car),
                                  Get(test_results), Get(is_outlier),
                                  Get(ret_ar_series),
                                  GenerateSummary(ar, p_value, ar_series,
                                                  significance_level)))
    /\ pc' = "done"
    /\ steps' = Append(steps, "assemble")
    /\ UNCHANGED <<inputs, outside, calls, stock_data, market_data, alpha, beta, ar, car,
                   ar_series, p_value, t_statistic, est_dates, ret_ar_series,
                   ret_car, test_results, is_outlier, raised>>

Next == Fetch \/ Estimate \/ CalcAr \/ CalcCar \/ Test \/ Outlier \/ Assemble

Spec == Init /\ [][Next]_vars

(***************************************************************************)
(* Methods called directly on an instance whose fields the caller set, as  *)
(* the unit tests do                                                       *)
(***************************************************************************)
\* a date-indexed series of values in thousandths
SeriesOf(ds, vs) ==
    [i \in 1..Len(ds) |-> [date |-> ds[i], value |-> <<vs[i], 1000>>]]

\* study.ar_series = ...
GivenSeries ==
    { None,
      Some(<<>>),
      Some(SeriesOf(<<3>>, <<2>>)),
      Some(SeriesOf(<<2, 3>>, <<29, 31>>)),
      Some(SeriesOf(<<3, 4>>, <<3, 3>>)),
      Some(SeriesOf(<<2, 3, 4>>, <<0, 0, 0>>)),
      Some(SeriesOf(<<1, 3, 4>>, <<4, 5, 6>>)),
      Some(SeriesOf(<<2, 3, 5>>, <<-1, 0, 5>>)),
      Some(SeriesOf(<<1, 2, 3, 4>>, <<-29, -30, -31, -30>>)),
      Some(SeriesOf(<<1, 2, 3, 4, 6>>, <<1, -2, 2, 150, -1>>)),
      Some(SeriesOf(<<1, 2, 3, 4, 5, 6, 7>>, <<20, 25, 30, 28, 22, 26, 24>>)) }

\* study.ar = ...
GivenAr == {None, Some(<<0, 1000>>), Some(<<5, 1000>>), Some(<<150, 1000>>),
            Some(<<-30, 1000>>)}

\* the window argument of calculate_car
CarWindows == {None, Some(<<0, 0>>), Some(<<1, 0>>), Some(<<0, 1>>),
               Some(<<1, 2>>), Some(<<5, 5>>)}

\* the fields of the first instance
Self ==
    [event_date |-> event_date, estimation_window_days |-> estimation_window_days,
     event_window_days |-> event_window_days, stock_src |-> stock_src,
     market_src |-> market_src, calls |-> calls, stock_data |-> stock_data,
     market_data |-> market_data, alpha |-> alpha, beta |-> beta, ar |-> ar,
     car |-> car, ar_series |-> ar_series, p_value |-> p_value,
     t_statistic |-> t_statistic, est_dates |-> est_dates,
     ret_ar_series |-> ret_ar_series, ret_car |-> ret_car,
     test_results |-> test_results, is_outlier |-> is_outlier, raised |-> raised,
     steps |-> steps, result |-> result, pc |-> pc]

\* the instance becomes s
Becomes(s) ==
    /\ event_date' = s.event_date
    /\ estimation_window_days' = s.estimation_window_days
    /\ event_window_days' = s.event_window_days
    /\ stock_src' = s.stock_src
    /\ market_src' = s.market_src
    /\ calls' = s.calls
    /\ stock_data' = s.stock_data
    /\ market_data' = s.market_data
    /\ alpha' = s.alpha
    /\ beta' = s.beta
    /\ ar' = s.ar
    /\ car' = s.car
    /\ ar_series' = s.ar_series
    /\ p_value' = s.p_value
    /\ t_statistic' = s.t_statistic
    /\ est_dates' = s.est_dates
    /\ ret_ar_series' = s.ret_ar_series
    /\ ret_car' = s.ret_car
    /\ test_results' = s.test_results
    /\ is_outlier' = s.is_outlier
    /\ raised' = s.raised
    /\ steps' = s.steps
    /\ result' = s.result
    /\ pc' = s.pc

\* How a method called on instance s ends: the exception text it raises (""
\* when it returns), what it returns, whether estimate_expected_return ran
\* inside it, and the instance it leaves.
Outcome(raises, ret, estimated, s) ==
    [raises |-> raises, ret |-> ret, estimated |-> estimated, self |-> s]

\* fetch_data() on instance s
FetchDataMethod(s) ==
    LET r == FetchData(s.event_date, s.estimation_window_days, s.event_window_days,
                       s.stock_src, s.market_src)
    IN  Outcome("", r.ok, FALSE,
                [s EXCEPT !.stock_data = r.stock, !.market_data = r.market,
                          !.calls = s.calls \o r.calls])

\* the regression of estimate_expected_return has answered o
Estimated(s, o, dates) ==
    IF o.raises # ""
    THEN Outcome(o.raises, None, TRUE, [s EXCEPT !.est_dates = Some(dates)])
    ELSE Outcome("", <<Get(o.alpha), Get(o.beta)>>, TRUE,
                 [s EXCEPT !.alpha = o.alpha, !.beta = o.beta,
                           !.est_dates = Some(dates)])

\* estimate_expected_return() on instance s
EstimateMethod(s) ==
    IF s.stock_data = None \/ s.market_data = None
    THEN Outcome(DATA_NOT_FETCHED, None, TRUE, s)
    ELSE Estimated(s,
             EstimateExpectedReturn(Get(s.stock_data), Get(s.market_data),
                 s.event_date, s.estimation_window_days, s.event_window_days),
             Dates(EstimationSample(Get(s.stock_data), Get(s.market_data),
                 s.event_date, s.estimation_window_days,
                 s.event_window_days).stock_returns))

\* calculate_ar past its first two lines: the event window gave series
ArComputed(s, series, estimated) ==
    IF Len(series) = 0
    THEN Outcome("", series, estimated, s)
    ELSE Outcome("", series, estimated,
                 [s EXCEPT !.ar_series = Some(series),
                           !.ar = Some(EventDayAr(series, s.event_date))])

\* calculate_ar once alpha and beta are there, or the estimate has raised
ArAfter(est) ==
    IF est.raises # "" THEN est
    ELSE ArComputed(est.self,
                    CalculateAr(Get(est.self.stock_data), Get(est.self.market_data),
                                Get(est.self.alpha), Get(est.self.beta),
                                est.self.event_date, est.self.event_window_days),
                    est.estimated)

\* Variant: the parameters are fitted again on every call.
CalculateArMethodRefits(s) == ArAfter(EstimateMethod(s))

\* calculate_ar() on instance s:
\* if self.alpha is None or self.beta is None: self.estimate_expected_return()
CalculateArMethod(s) ==
    ArAfter(IF s.alpha = None \/ s.beta = None THEN EstimateMethod(s)
            ELSE Outcome("", None, FALSE, s))

NONE_HAS_NO_SUM == "'NoneType' object has no attribute 'sum'"
NONE_NOT_SUBSCRIPTABLE == "'NoneType' object is not subscriptable"

\* the sum calculate_car takes of self.ar_series
CarOf(series, window_opt, e) ==
    IF window_opt # None THEN RSum(CarWindow(series, e, Get(window_opt)))
    ELSE CalculateCar(series)

\* self.car = car; return car
CarStored(s, c, estimated) == Outcome("", c, estimated, [s EXCEPT !.car = Some(c)])

\* calculate_car once calculate_ar has run where the series was missing
CarAfter(a, window_opt) ==
    IF a.raises # "" THEN Outcome(a.raises, None, a.estimated, a.self)
    ELSE IF a.self.ar_series = None
    THEN Outcome(IF window_opt # None THEN NONE_NOT_SUBSCRIPTABLE
                 ELSE NONE_HAS_NO_SUM,
                 None, a.estimated, a.self)
    ELSE CarStored(a.self,
                   CarOf(Get(a.self.ar_series), window_opt, a.self.event_date),
                   a.estimated)

\* calculate_car(window) on instance s:
\* if self.ar_series is None: self.calculate_ar()
CalculateCarMethod(s, window_opt) ==
    CarAfter(IF s.ar_series = None THEN CalculateArMethod(s)
             ELSE Outcome("", None, FALSE, s),
             window_opt)

InitMethods ==
    /\ event_date = 3
    /\ estimation_window_days = DEFAULT_ESTIMATION_WINDOW
    /\ event_window_days = DEFAULT_EVENT_WINDOW
    /\ stock_src = Source(FALSE, <<>>)
    /\ market_src = Source(FALSE, <<>>)
    /\ calls = <<>>
    /\ stock_data = None
    /\ market_data = None
    /\ alpha = None
    /\ beta = None
    /\ ar \in GivenAr
    /\ car = None
    /\ ar_series \in GivenSeries
    /\ p_value = None
    /\ t_statistic = None
    /\ est_dates = None
    /\ ret_ar_series = None
    /\ ret_car = None
    /\ test_results = None
    /\ is_outlier = None
    /\ raised = None
    /\ steps = <<>>
    /\ result = None
    /\ pc = "caller"
    /\ significance_level \in Levels
    /\ call = None
    /\ other = None

\* study.calculate_car(window)
CallCalculateCar ==
    /\ pc = "caller"
    /\ \E window \in CarWindows :
          \E r \in {CalculateCarMethod(Self, window)} :
              /\ Becomes(r.self)
              /\ call' = Some([op |-> "calculate_car", window |-> window,
                               raises |-> r.raises, ret |-> r.ret,
                               estimated |-> r.estimated])
    /\ UNCHANGED <<significance_level, other>>

\* the threshold argument of filter_outliers
Thresholds == {<<OUTLIER_THRESHOLD, 1>>, <<1, 1>>, <<5, 1>>, <<1, 2>>}

\* study.filter_outliers(threshold)
CallFilterOutliers ==
    /\ pc = "caller"
    /\ \E threshold \in Thresholds :
          call' = Some([op |-> "filter_outliers", threshold |-> threshold,
                        raises |-> "", estimated |-> FALSE,
                        ret |-> FilterOutliersAt(ar_series, ar, threshold)])
    /\ UNCHANGED <<inputs, other, calls, stock_data, market_data, alpha, beta, ar, car,
                   ar_series, p_value, t_statistic, est_dates, ret_ar_series,
                   ret_car, test_results, is_outlier, raised, steps, result, pc>>

\* study.statistical_test(use_robust)
CallStatisticalTest ==
    /\ pc = "caller"
    /\ \E use_robust \in BOOLEAN :
          \E t \in {StatisticalTestCall(ar_series, use_robust, significance_level,
                                        t_statistic, p_value)} :
              /\ t_statistic' = t.t_statistic
              /\ p_value' = t.p_value
              /\ call' = Some([op |-> "statistical_test", use_robust |-> use_robust,
                               level |-> significance_level, raises |-> "",
                               ret |-> t.ret, estimated |-> FALSE])
    /\ UNCHANGED <<inputs, other, calls, stock_data, market_data, alpha, beta, ar, car,
                   ar_series, est_dates, ret_ar_series, ret_car, test_results,
                   is_outlier, raised, steps, result, pc>>

NextMethods == CallCalculateCar \/ CallFilterOutliers \/ CallStatisticalTest

SpecMethods == InitMethods /\ [][NextMethods]_vars

(***************************************************************************)
(* The methods called one by one on a constructed instance, in any order   *)
(***************************************************************************)
\* the instrument and market prices the provider holds for those instances
CallerStocks ==
    { Source(TRUE, <<>>),
      Source(FALSE, Hist(1, MaxDate, {}, <<1, 2, 2>>)),
      Source(FALSE, Hist(2, MaxDate, {MaxDate - 6}, <<1, 2, 2>>)) }

CallerMarkets ==
    { Source(FALSE, Hist(1, MaxDate, {}, <<1, 2>>)),
      Source(FALSE, Hist(1, MaxDate, {MaxDate - 7}, <<1, 1>>)) }

\* (estimation_window_days, event_window_days) of those instances
CallerParams == {<<DEFAULT_ESTIMATION_WINDOW, DEFAULT_EVENT_WINDOW>>,
                 <<45, DEFAULT_EVENT_WINDOW>>, <<25, DEFAULT_EVENT_WINDOW>>}

\* study = EventStudy(event_timestamp, ticker, estimation_window_days,
\*                    event_window_days)
InitCaller ==
    /\ event_date \in EventDates
    /\ \E prm \in CallerParams :
          /\ estimation_window_days = prm[1]
          /\ event_window_days = prm[2]
    /\ stock_src \in CallerStocks
    /\ market_src \in CallerMarkets
    /\ calls = <<>>
    /\ stock_data = None
    /\ market_data = None
    /\ alpha = None
    /\ beta = None
    /\ ar = None
    /\ car = None
    /\ ar_series = None
    /\ p_value = None
    /\ t_statistic = None
    /\ est_dates = None
    /\ ret_ar_series = None
    /\ ret_car = None
    /\ test_results = None
    /\ is_outlier = None
    /\ raised = None
    /\ steps = <<>>
    /\ result = None
    /\ pc = "caller"
    /\ significance_level = SIGNIFICANCE_LEVEL
    /\ call = None
    /\ other = None

\* study.fetch_data(), called once
CallFetchData ==
    /\ pc = "caller"
    /\ calls = <<>>
    /\ \E r \in {FetchDataMethod(Self)} :
          /\ Becomes(r.self)
          /\ call' = Some([op |-> "fetch_data", raises |-> r.raises, ret |-> r.ret,
                           estimated |-> r.estimated])
    /\ UNCHANGED <<significance_level, other>>

\* study.estimate_expected_return()
CallEstimate ==
    /\ pc = "caller"
    /\ \E r \in {EstimateMethod(Self)} :
          /\ Becomes(r.self)
          /\ call' = Some([op |-> "estimate_expected_return", raises |-> r.raises,
                           ret |-> r.ret, estimated |-> r.estimated])
    /\ UNCHANGED <<significance_level, other>>

\* study.calculate_ar()
CallCalculateAr ==
    /\ pc = "caller"
    /\ \E r \in {CalculateArMethod(Self)} :
          /\ Becomes(r.self)
          /\ call' = Some([op |-> "calculate_ar", raises |-> r.raises,
                           ret |-> r.ret, estimated |-> r.estimated])
    /\ UNCHANGED <<significance_level, other>>

\* study._generate_summary()
CallGenerateSummary ==
    /\ pc = "caller"
    /\ call' = Some([op |-> "_generate_summary", raises |-> "",
                     ret |-> GenerateSummary(ar, p_value, ar_series,
                                             significance_level),
                     estimated |-> FALSE])
    /\ UNCHANGED <<inputs, other, calls, stock_data, market_data, alpha, beta, ar, car,
                   ar_series, p_value, t_statistic, est_dates, ret_ar_series,
                   ret_car, test_results, is_outlier, raised, steps, result, pc>>

NextCaller ==
    \/ CallFetchData \/ CallEstimate \/ CallCalculateAr \/ CallCalculateCar
    \/ CallStatisticalTest \/ CallFilterOutliers \/ CallGenerateSummary

SpecCaller == InitCaller /\ [][NextCaller]_vars

\* an instance either runs run_full_analysis or has its methods called one by
\* one after construction
SpecRunOrCalls == (Init \/ InitCaller) /\ [][Next \/ NextCaller]_vars

(***************************************************************************)
(* Two instances of one process, their steps interleaved                   *)
(***************************************************************************)
\* the fields of an instance after EventStudy(event_timestamp, ticker, ...)
Fresh(e, n, w, ssrc, msrc) ==
    [event_date |-> e, estimation_window_days |-> n, event_window_days |-> w,
     stock_src |-> ssrc, market_src |-> msrc, calls |-> <<>>,
     stock_data |-> None, market_data |-> None, alpha |-> None, beta |-> None,
     ar |-> None, car |-> None, ar_series |-> None, p_value |-> None,
     t_statistic |-> None, est_dates |-> None, ret_ar_series |-> None,
     ret_car |-> None, test_results |-> None, is_outlier |-> None,
     raised |-> None, steps |-> <<>>, result |-> None, pc |-> "fetch"]

\* the next step of run_full_analysis on an instance, as the instance it leaves
StepOf(s, level) ==
    CASE s.pc = "fetch" ->
           LET r == FetchData(s.event_date, s.estimation_window_days,
                              s.event_window_days, s.stock_src, s.market_src)
           IN  [s EXCEPT !.stock_data = r.stock,
                         !.market_data = r.market,
                         !.calls = s.calls \o r.calls,
                         !.pc = IF r.ok THEN "estimate" ELSE "done",
                         !.result = IF r.ok THEN None
                                    ELSE Some(ErrorResult(s.event_date,
                                                          <<"Failed to fetch data">>)),
                         !.steps = Append(s.steps, "fetch")]
      [] s.pc = "estimate" ->
           LET smp == EstimationSample(Get(s.stock_data), Get(s.market_data),
                                       s.event_date, s.estimation_window_days,
                                       s.event_window_days)
               o == EstimateExpectedReturn(Get(s.stock_data), Get(s.market_data),
                                           s.event_date, s.estimation_window_days,
                                           s.event_window_days)
               h == ExceptHandler(s.event_date, o.raises)
           IN  IF o.raises # ""
               THEN [s EXCEPT !.est_dates = Some(Dates(smp.stock_returns)),
                              !.raised = Some(o.raises),
                              !.result = h.result,
                              !.pc = h.pc,
                              !.steps = Append(s.steps, "estimate")]
               ELSE [s EXCEPT !.est_dates = Some(Dates(smp.stock_returns)),
                              !.alpha = o.alpha,
                              !.beta = o.beta,
                              !.pc = "ar",
                              !.steps = Append(s.steps, "estimate")]
      [] s.pc = "ar" ->
           LET series == CalculateAr(Get(s.stock_data), Get(s.market_data),
                                     Get(s.alpha), Get(s.beta), s.event_date,
                                     s.event_window_days)
           IN  IF Len(series) = 0
               THEN [s EXCEPT !.ret_ar_series = Some(series),
                              !.result = Some(ErrorResult(s.event_date,
                                                  <<"No data in event window">>)),
                              !.pc = "done",
                              !.steps = Append(s.steps, "ar")]
               ELSE [s EXCEPT !.ret_ar_series = Some(series),
                              !.ar_series = Some(series),
                              !.ar = Some(EventDayAr(series, s.event_date)),
                              !.pc = "car",
                              !.steps = Append(s.steps, "ar")]
      [] s.pc = "car" ->
           [s EXCEPT !.car = Some(CalculateCar(Get(s.ar_series))),
                     !.ret_car = Some(CalculateCar(Get(s.ar_series))),
                     !.pc = "test",
                     !.steps = Append(s.steps, "car")]
      [] s.pc = "test" ->
           LET t == StatisticalTestCall(s.ar_series, TRUE, level, s.t_statistic,
                                        s.p_value)
           IN  [s EXCEPT !.test_results = Some(t.ret),
                         !.t_statistic = t.t_statistic,
                         !.p_value = t.p_value,
                         !.pc = "outlier",
                         !.steps = Append(s.steps, "test")]
      [] s.pc = "outlier" ->
           [s EXCEPT !.is_outlier = Some(FilterOutliers(s.ar_series, s.ar)),
                     !.pc = "assemble",
                     !.steps = Append(s.steps, "outlier")]
      [] s.pc = "assemble" ->
           [s EXCEPT !.result =
                         Some(BuildResult(s.event_date, s.estimation_window_days,
                                  Get(s.alpha), Get(s.beta), Get(s.ar),
                                  Get(s.ret_car), Get(s.test_results),
                                  Get(s.is_outlier), Get(s.ret_ar_series),
                                  GenerateSummary(s.ar, s.p_value, s.ar_series,
                                                  level))),
                     !.pc = "done",
                     !.steps = Append(s.steps, "assemble")]
      [] OTHER -> s

\* the studies of the process: event date, windows and the instrument's prices
PairStudies ==
    { <<MaxDate - 2, 45, DEFAULT_EVENT_WINDOW,
        Source(FALSE, Hist(1, MaxDate, {}, <<1, 2, 2>>))>>,
      <<MaxDate + 1, DEFAULT_ESTIMATION_WINDOW, DEFAULT_EVENT_WINDOW,
        Source(FALSE, Hist(2, MaxDate, {MaxDate - 6}, <<1, 2, 2>>))>>,
      <<MaxDate - 8, 25, DEFAULT_EVENT_WINDOW,
        Source(FALSE, Hist(1, MaxDate, (MaxDate - 11)..(MaxDate - 5), <<1, 2>>))>>,
      <<MaxDate + 4, 45, DEFAULT_EVENT_WINDOW,
        Source(FALSE, Hist(1, MaxDate, {}, <<1, 2, 2>>))>> }

\* the market index prices both instances ask the provider for
PairMarkets ==
    { Source(FALSE, Hist(1, MaxDate, {}, <<1, 2>>)),
      Source(FALSE, Hist(1, MaxDate, {}, <<2, 1, 1>>)) }

InitPair ==
    /\ \E a \in PairStudies, b \in PairStudies, m \in PairMarkets :
          /\ event_date = a[1]
          /\ estimation_window_days = a[2]
          /\ event_window_days = a[3]
          /\ stock_src = a[4]
          /\ market_src = m
          /\ other = Some(Fresh(b[1], b[2], b[3], b[4], m))
    /\ calls = <<>>
    /\ stock_data = None
    /\ market_data = None
    /\ alpha = None
    /\ beta = None
    /\ ar = None
    /\ car = None
    /\ ar_series = None
    /\ p_value = None
    /\ t_statistic = None
    /\ est_dates = None
    /\ ret_ar_series = None
    /\ ret_car = None
    /\ test_results = None
    /\ is_outlier = None
    /\ raised = None
    /\ steps = <<>>
    /\ result = None
    /\ pc = "fetch"
    /\ significance_level = SIGNIFICANCE_LEVEL
    /\ call = None

\* Variant: the loaded market frame is kept in one place for the whole
\* process, so the second instance's load replaces the first one's.
OtherStepSharedMarket ==
    /\ other # None /\ Get(other).pc # "done"
    /\ other' = Some(StepOf(Get(other), significance_level))
    /\ market_data' = IF Get(other).pc = "fetch" /\ market_data # None
                       THEN Get(other').market_data ELSE market_data
    /\ UNCHANGED <<inputs, call, calls, stock_data, alpha, beta, ar,
                   car, ar_series, p_value, t_statistic, est_dates, ret_ar_series,
                   ret_car, test_results, is_outlier, raised, steps, result, pc>>

\* the second instance takes its next step of run_full_analysis
OtherStep ==
    /\ other # None /\ Get(other).pc # "done"
    /\ other' = Some(StepOf(Get(other), significance_level))
    /\ UNCHANGED <<inputs, call, calls, stock_data, market_data, alpha, beta, ar,
                   car, ar_series, p_value, t_statistic, est_dates, ret_ar_series,
                   ret_car, test_results, is_outlier, raised, steps, result, pc>>

SpecPair == InitPair /\ [][Next \/ OtherStep]_vars

\* an instance either runs run_full_analysis or has its methods called
SpecAll == (Init \/ InitMethods) /\ [][Next \/ NextMethods]_vars

(***************************************************************************)
(* quick_event_study                                                       *)
(***************************************************************************)
\* the record run_full_analysis returned
Res == Get(result)

TEXT_LIMIT == 200            \* event_text[:200]

\* a text of len characters
Text(len) == [i \in 1..len |-> i % 10]

\* the event_text argument
EventTexts == {Text(0), Text(1), Text(10), Text(TEXT_LIMIT - 1), Text(TEXT_LIMIT),
               Text(TEXT_LIMIT + 1), Text(TEXT_LIMIT + 50)}

\* text[:k]
Take(text, k) == SubSeq(text, 1, IF Len(text) < k THEN Len(text) ELSE k)

\* Variant: a failed analysis is returned as it is.
QuickEventStudySkipsErrors(results, event_text) ==
    IF event_text # <<>> /\ "error" \notin DOMAIN results
    THEN [f \in DOMAIN results \cup {"event_text"} |->
             IF f = "event_text" THEN Take(event_text, TEXT_LIMIT) ELSE results[f]]
    ELSE results

\* if event_text: results['event_text'] = event_text[:200]; return results
QuickEventStudy(results, event_text) ==
    IF event_text # <<>>
    THEN [f \in DOMAIN results \cup {"event_text"} |->
             IF f = "event_text" THEN Take(event_text, TEXT_LIMIT) ELSE results[f]]
    ELSE results

\* The event-study fields a caller of quick_event_study fills in: where they
\* come from and their values; nothing filled in yet.
NO_SIGNAL == [from |-> "unset", values |-> None]

\* dict.get(key, default), the value as an Optional
DictGet(rec, key, default) == IF key \in DOMAIN rec THEN Some(rec[key]) ELSE default

\* backend/tasks/celery_app.py compute_event_study: the signal's fields are
\* written only from a record without 'error'
ComputeEventStudy(rec, signal) ==
    IF "error" \notin DOMAIN rec
    THEN [from |-> "event_study",
          values |-> Some([abnormal_return |-> DictGet(rec, "ar", None),
                           car |-> DictGet(rec, "car", None),
                           p_value |-> DictGet(rec, "p_value", None),
                           is_significant |-> DictGet(rec, "is_significant", Some(FALSE)),
                           beta |-> DictGet(rec, "beta", None),
                           is_outlier |-> DictGet(rec, "is_outlier", Some(FALSE))])]
    ELSE signal

\* backend/app/main.py generate_signal: Signal(abnormal_return=
\* event_study_result.get('ar') if event_study_result else None, ...); a
\* record is never empty, so it is always used
GenerateSignal(rec, signal) ==
    [from |-> "event_study",
     values |-> Some([abnormal_return |-> DictGet(rec, "ar", None),
                      is_significant |-> DictGet(rec, "is_significant", Some(FALSE))])]

\* backend/data_prototype.py generate_signal(use_advanced=True): ar_result is
\* built from a record without 'error', else by calculate_simple_ar
PrototypeGenerateSignal(rec, signal) ==
    IF "error" \notin DOMAIN rec
    THEN [from |-> "event_study",
          values |-> Some([ar |-> DictGet(rec, "ar", Some(RZero)),
                           confidence |-> DictGet(rec, "confidence", Some("0.0")),
                           is_outlier |-> DictGet(rec, "is_outlier", Some(FALSE)),
                           beta |-> DictGet(rec, "beta", Some(<<1, 1>>)),
                           p_value |-> DictGet(rec, "p_value", Some("p=1"))])]
    ELSE [from |-> "calculate_simple_ar", values |-> None]

\* the callers of quick_event_study
Callers == {"compute_event_study", "generate_signal", "prototype.generate_signal"}

\* what a caller makes of the returned record
StoredBy(caller, rec, signal) ==
    CASE caller = "compute_event_study" -> ComputeEventStudy(rec, signal)
      [] caller = "generate_signal"     -> GenerateSignal(rec, signal)
      [] OTHER                          -> PrototypeGenerateSignal(rec, signal)

\* quick_event_study(ticker, event_timestamp, event_text) was called:
\* study = EventStudy(event_timestamp, ticker)
InitQuick ==
    /\ event_date \in EventDates
    /\ estimation_window_days = DEFAULT_ESTIMATION_WINDOW
    /\ event_window_days = DEFAULT_EVENT_WINDOW
    /\ stock_src \in StockSources
    /\ market_src \in MarketSources
    /\ calls = <<>>
    /\ stock_data = None
    /\ market_data = None
    /\ alpha = None
    /\ beta = None
    /\ ar = None
    /\ car = None
    /\ ar_series = None
    /\ p_value = None
    /\ t_statistic = None
    /\ est_dates = None
    /\ ret_ar_series = None
    /\ ret_car = None
    /\ test_results = None
    /\ is_outlier = None
    /\ raised = None
    /\ steps = <<>>
    /\ result = None
    /\ pc = "fetch"
    /\ significance_level = SIGNIFICANCE_LEVEL
    /\ \E text \in EventTexts :
          call = Some([op |-> "quick_event_study", event_text |-> text,
                       raises |-> "", ret |-> None, caller |-> "",
                       signal |-> NO_SIGNAL])
    /\ other = None

\* results = study.run_full_analysis() has returned: add the text, return
QuickReturn ==
    /\ pc = "done"
    /\ call # None /\ Get(call).op = "quick_event_study"
    /\ call' = Some([Get(call) EXCEPT
                        !.ret = Some(QuickEventStudy(Res, Get(call).event_text))])
    /\ pc' = "returned"
    /\ UNCHANGED <<inputs, other, calls, stock_data, market_data, alpha, beta, ar, car,
                   ar_series, p_value, t_statistic, est_dates, ret_ar_series,
                   ret_car, test_results, is_outlier, raised, steps, result>>

\* the caller of quick_event_study takes the returned record
CallerStores ==
    /\ pc = "returned"
    /\ \E c \in Callers :
          call' = Some([Get(call) EXCEPT
                           !.caller = c,
                           !.signal = StoredBy(c, Get(Get(call).ret),
                                               Get(call).signal)])
    /\ pc' = "stored"
    /\ UNCHANGED <<inputs, other, calls, stock_data, market_data, alpha, beta, ar, car,
                   ar_series, p_value, t_statistic, est_dates, ret_ar_series,
                   ret_car, test_results, is_outlier, raised, steps, result>>

SpecQuick == InitQuick /\ [][Next \/ QuickReturn \/ CallerStores]_vars

(***************************************************************************)
(* Properties                                                              *)
(***************************************************************************)
HasError == result # None /\ "error" \in DOMAIN Res
NonEmptyText(t) == \E i \in 1..Len(t) : t[i] # ""
Range(f) == {f[i] : i \in DOMAIN f}
DatesOf(frame) == IF frame = None THEN {} ELSE Dates(Get(frame))

\* the run ended before the result was assembled
StageFailed == pc = "done" /\ steps[Len(steps)] # "assemble"

\* C1: run_full_analysis never raises: from every position it either goes on
\* or has returned a record, and a run that ended at a failed stage returned
\* a record with a non-empty 'error' text.
C1_NeverRaises ==
    /\ pc \in {"fetch", "estimate", "ar", "car", "test", "outlier", "assemble", "done"}
    /\ pc \in {"estimate", "ar", "car", "test", "outlier", "assemble"} =>
          stock_data # None /\ market_data # None /\ result = None
    /\ pc \in {"ar", "car", "test", "outlier", "assemble"} =>
          alpha # None /\ beta # None
    /\ pc \in {"car", "test", "outlier", "assemble"} =>
          ar_series # None /\ ar # None
    /\ pc = "assemble" =>
          ret_car # None /\ test_results # None /\ is_outlier # None
    /\ pc = "done" => result # None
    /\ StageFailed => HasError /\ NonEmptyText(Res.error)

\* an exception raised inside the estimation step came back as an error record
C1_Witness == pc = "done" /\ raised # None /\ HasError /\ Len(Res.error) = 2

ComputedFields == {"alpha", "beta", "ar_percentage", "car_percentage",
                   "t_statistic", "p_value", "is_outlier", "num_observations"}

\* C2: a returned record with an 'error' field has ar = car = confidence = 0,
\* is_significant = false and none of the computed fields; a record with a
\* computed field has no 'error' field.
C2_ErrorExcludesNumbers ==
    pc = "done" =>
        /\ HasError =>
              /\ Res.ar = RZero
              /\ Res.car = RZero
              /\ Res.confidence = "0.0"
              /\ Res.is_significant = FALSE
              /\ DOMAIN Res \cap ComputedFields = {}
        /\ DOMAIN Res \cap ComputedFields # {} => ~HasError

\* alpha and beta were fitted, yet the error record carries none of them
C2_Witness == pc = "done" /\ HasError /\ alpha # None /\ beta # None

\* the dates of the event window present in both loaded series
WindowDates ==
    {d \in (event_date - event_window_days)..(event_date + event_window_days) :
        d \in DatesOf(stock_data) \cap DatesOf(market_data)}

\* C3: when no date of the event window is in both series, calculate_ar
\* returns an empty series without raising, and run_full_analysis returns an
\* error record with AR = CAR = confidence = 0 without running the CAR,
\* significance and outlier steps.
C3_EmptyWindowIsError ==
    WindowDates = {} =>
        /\ ret_ar_series # None => Get(ret_ar_series) = <<>> /\ raised = None
        /\ pc = "done" =>
              /\ HasError
              /\ Res.ar = RZero /\ Res.car = RZero /\ Res.confidence = "0.0"
              /\ Range(steps) \cap {"car", "test", "outlier"} = {}
              /\ car = None /\ ret_car = None
              /\ test_results = None /\ is_outlier = None

\* calculate_ar ran on fitted parameters and found the window empty
C3_Witness ==
    /\ pc = "done" /\ alpha # None /\ ret_ar_series = Some(<<>>)
    /\ Res.error = <<"No data in event window">>

\* C4 (as claimed): the loader fails exactly when the provider raised, a
\* series is empty, or either aligned NaN-free series has fewer than 50 rows.
C4_LoaderFailsBelowMinimum ==
    steps # <<>> =>
        LET failed == /\ pc = "done" /\ steps = <<"fetch">>
                      /\ HasError /\ Res.error = <<"Failed to fetch data">>
            short  == \/ stock_data = None \/ market_data = None
                      \/ Len(Get(stock_data)) < MIN_DATA_POINTS
                      \/ Len(Get(market_data)) < MIN_DATA_POINTS
        IN  failed <=> short

\* the dates present in both loaded series
CommonDates == DatesOf(stock_data) \cap DatesOf(market_data)

\* the market returns of the observations the regression was handed
EstimationMarketReturns ==
    {Get(Get(market_data)[i].return) : 
        i \in {j \in 1..Len(Get(market_data)) :
                  Get(market_data)[j].date \in Get(est_dates)}}

MostRecent(ds, n) == {d \in ds : Cardinality({x \in ds : x > d}) < n}

\* C6: the regression is fitted on exactly the most recent
\* min(estimation_window_days, available) common dates strictly before
\* event_date - event_window_days: no estimation date is a date of the event
\* window, and the sample never exceeds estimation_window_days observations.
C6_EstimationSample ==
    est_dates # None =>
        /\ Get(est_dates) =
              MostRecent({d \in CommonDates : d < event_date - event_window_days},
                         estimation_window_days)
        /\ Cardinality(Get(est_dates)) <= estimation_window_days
        /\ \A d \in Get(est_dates) : d < event_date - event_window_days
        /\ Get(est_dates) \cap WindowDates = {}
        /\ ret_ar_series # None =>
              Get(est_dates) \cap Dates(Get(ret_ar_series)) = {}

\* the sample was cut to the last estimation_window_days observations
C6_Witness ==
    /\ est_dates # None /\ alpha # None
    /\ Cardinality(Get(est_dates)) = estimation_window_days
    /\ Cardinality({d \in CommonDates : d < event_date - event_window_days})
          > estimation_window_days

\* C7: the series calculate_ar returns has a value for exactly the dates of
\* [event_date - W, event_date + W] present in both series, one value per
\* date, in increasing date order.
C7_ArSeriesDates ==
    ret_ar_series # None =>
        LET s == Get(ret_ar_series)
        IN  /\ Dates(s) = WindowDates
            /\ Len(s) = Cardinality(WindowDates)
            /\ \A i, j \in 1..Len(s) : i < j => s[i].date < s[j].date

\* a day of the window the provider has for the instrument only got no value
C7_Witness ==
    /\ ret_ar_series # None /\ Len(Get(ret_ar_series)) >= 2
    /\ \E d \in (event_date - event_window_days)..(event_date + event_window_days) :
          /\ d \in Dates(stock_src.hist) \ Dates(market_src.hist)
          /\ d \notin Dates(Get(ret_ar_series))

\* the return a loaded frame holds for a date
ReturnOn(frame, d) ==
    Get(Get(frame)[CHOOSE i \in 1..Len(Get(frame)) : Get(frame)[i].date = d].return)

SeriesTotal(s) ==
    <<SumInt([i \in 1..Len(s) |-> s[i].value[1]]), s[1].value[2]>>

SameDenominator(s) == \A i \in 1..Len(s) : s[i].value[2] = s[1].value[2]

\* C9: self.ar is the abnormal return of the earliest series date on or
\* after the event date, and the mean of the series when there is none.
C9_EventDayAr ==
    ar # None =>
        LET s == Get(ar_series)
            later == {i \in 1..Len(s) : s[i].date >= event_date}
        IN  /\ SameDenominator(s)
            /\ later # {} =>
                  Get(ar) = s[CHOOSE i \in later : \A j \in later : i <= j].value
            /\ later = {} =>
                  REq(RMul(Get(ar), <<Len(s), 1>>), SeriesTotal(s))

\* every date of a series of several days lies before the event date
C9_Witness ==
    /\ ar # None /\ Len(Get(ar_series)) >= 2
    /\ \A i \in 1..Len(Get(ar_series)) : Get(ar_series)[i].date < event_date
    /\ Get(ar) # Get(ar_series)[1].value

\* C10: calculate_car() returns, and stores in self.car, the sum of all the
\* values of the abnormal-return series.
C10_CarIsSum ==
    ret_car # None =>
        /\ SameDenominator(Get(ar_series))
        /\ REq(Get(ret_car), SeriesTotal(Get(ar_series)))
        /\ car = ret_car

\* a nonzero CAR over at least three days
C10_Witness ==
    /\ ret_car # None /\ Len(Get(ar_series)) >= 3 /\ Get(car)[1] # 0

\* the last direct call, when it returned
Returned(op) ==
    call # None /\ Get(call).op = op /\ Get(call).raises = ""

\* C11: calculate_car(window=(days_before, days_after)) returns, and stores in
\* self.car, the sum of the abnormal returns of exactly the series dates d with
\* event_date - days_before <= d <= event_date + days_after; no call of
\* calculate_car changes the series, so calculate_car() without window returns
\* the full sum whatever was called before.
C11_CarSubWindow ==
    [][call' # None /\ call'[1].op = "calculate_car" =>
          /\ ar_series' = ar_series
          /\ ar_series # None =>
                LET s == Get(ar_series)
                    w == call'[1].window
                    picked == {i \in 1..Len(s) :
                                  w # None =>
                                      /\ event_date - Get(w)[1] <= s[i].date
                                      /\ s[i].date <= event_date + Get(w)[2]}
                IN  /\ REq(call'[1].ret,
                           <<SumInt([i \in 1..Len(s) |->
                                       IF i \in picked THEN s[i].value[1] ELSE 0]),
                             1000>>)
                    /\ car' = Some(call'[1].ret)]_vars

\* a sub-window call returned the sum of a strict part of the series, which
\* differs from the full sum
C11_Witness ==
    /\ Returned("calculate_car") /\ Get(call).window # None
    /\ Get(call).ret[1] # 0
    /\ ~REq(Get(call).ret, RSum(Get(ar_series)))

\* the k-th smallest of a sequence of values
Kth(values, k) ==
    CHOOSE v \in Range(values) :
        /\ Cardinality({i \in 1..Len(values) : RLess(values[i], v)}) < k
        /\ Cardinality({i \in 1..Len(values) : ~RLess(v, values[i])}) >= k

\* the middle value, or the mean of the two middle values
MidValue(values) ==
    LET n == Len(values)
    IN  IF n % 2 = 1 THEN Kth(values, (n + 1) \div 2)
        ELSE RDivInt(RAdd(Kth(values, n \div 2), Kth(values, n \div 2 + 1)), 2)

\* the unscaled median absolute deviation from the median
MadOf(values) ==
    MidValue([i \in 1..Len(values) |-> RAbs(RSub(values[i], MidValue(values)))])

\* C12: on a series of at least 3 observations with MAD > 0 and an event-day
\* AR, filter_outliers(threshold) returns true exactly when
\* |event_day_AR - median(AR)| > threshold * MAD.
C12_OutlierRule ==
    Returned("filter_outliers") /\ ar_series # None /\ ar # None =>
        LET v == Values(Get(ar_series))
        IN  Len(v) >= 3 /\ MadOf(v)[1] > 0 =>
                (Get(call).ret <=>
                    RLess(RMul(Get(call).threshold, MadOf(v)),
                          RAbs(RSub(Get(ar), MidValue(v)))))

\* the event-day AR was flagged at the default threshold
C12_Witness ==
    /\ Returned("filter_outliers") /\ Get(call).ret
    /\ Get(call).threshold = <<OUTLIER_THRESHOLD, 1>>
    /\ Len(Get(ar_series)) >= 3

\* C13: filter_outliers returns false whenever the series is missing or has
\* fewer than 3 observations, whenever its MAD is zero, and whenever no
\* event-day AR is set.
C13_OutlierSkipped ==
    Returned("filter_outliers") =>
        /\ ar_series = None => ~Get(call).ret
        /\ ar_series # None /\ Len(Get(ar_series)) < 3 => ~Get(call).ret
        /\ ar_series # None /\ Len(Get(ar_series)) >= 3
              /\ MadOf(Values(Get(ar_series)))[1] = 0 => ~Get(call).ret
        /\ ar = None => ~Get(call).ret

\* a series of three equal values and an event-day AR away from them: the
\* deviation exceeds threshold * MAD = 0, and the call returned false
C13_Witness ==
    /\ Returned("filter_outliers") /\ ~Get(call).ret
    /\ ar_series # None /\ Len(Get(ar_series)) >= 3 /\ ar # None
    /\ MadOf(Values(Get(ar_series)))[1] = 0
    /\ ~REq(Get(ar), MidValue(Values(Get(ar_series))))

\* C14 (as claimed): for every non-empty series whose MAD is zero, a single
\* observation included, the robust test gives t = 0 and p = 1, never NaN, is
\* not significant, and the outlier flag is false.
C14_DegenerateStatistic ==
    /\ test_results # None /\ MadOf(Values(Get(ar_series)))[1] = 0 =>
          /\ Get(test_results).t_statistic.kind = "finite"
          /\ Get(test_results).t_statistic.sign = 0
          /\ Get(test_results).p_value = "p=1"
          /\ ~Get(test_results).is_significant
          /\ is_outlier # None => ~Get(is_outlier)
          /\ pc = "done" => Res.p_value = "p=1" /\ ~Res.is_outlier
    /\ Returned("statistical_test") /\ Get(call).use_robust
          /\ ar_series # None /\ Len(Get(ar_series)) >= 1
          /\ MadOf(Values(Get(ar_series)))[1] = 0 =>
             /\ Get(call).ret.t_statistic.kind = "finite"
             /\ Get(call).ret.t_statistic.sign = 0
             /\ Get(call).ret.p_value = "p=1"
             /\ ~Get(call).ret.is_significant
             /\ ~FilterOutliers(ar_series, ar)

\* a t statistic or p-value that is a finite number
FiniteT(t) == t.kind = "finite"
FiniteP(p) == p # "nan"

\* C15 (as claimed): no NaN or infinity reaches the caller: the t_statistic and
\* p_value statistical_test returns for a non-empty series, in both modes, and
\* those of a run_full_analysis result, are finite numbers.
C15_NoNaNReachesCaller ==
    /\ pc = "done" /\ ~HasError =>
          FiniteT(Res.t_statistic) /\ FiniteP(Res.p_value)
    /\ Returned("statistical_test") =>
          FiniteT(Get(call).ret.t_statistic) /\ FiniteP(Get(call).ret.p_value)

C17_Direction ==
    pc = "done" /\ ~HasError =>
        /\ Res.direction \in {"positive", "negative", "neutral"}
        /\ Res.direction = "positive" <=> Get(ar)[1] > 0
        /\ Res.direction = "negative" <=> Get(ar)[1] < 0
        /\ Res.direction = "neutral" <=> Get(ar)[1] = 0

\* an event-day AR of exactly 0 in a series that is not all zero
C17_Witness ==
    /\ pc = "done" /\ ~HasError /\ Res.direction = "neutral"
    /\ \E i \in 1..Len(Get(ar_series)) : Get(ar_series)[i].value[1] # 0

\* x is a multiple of 10^-k
Decimals(x, k) == (10 ^ k) % RNorm(x)[2] = 0

\* The robust t statistic sign * ratio * sqrt(n) * 5000 / 7413 is a multiple
\* of 10^-k: it is 0, or n is a square and the quotient has such a denominator.
TStatDecimals(t, k) ==
    /\ t.kind = "finite"
    /\ \/ t.sign = 0
       \/ \E r \in 1..t.n :
             /\ r * r = t.n
             /\ Decimals(<<t.ratio[1] * r * 5000, t.ratio[2] * 7413>>, k)

\* The p-value is a multiple of 10^-3, where the model decides it: 1 is; nan
\* is no number; on two observations p = 1 - (2 / pi) * atan(|t|) with
\* t = ratio * sqrt(2) / 1.4826, which is rational for no rational ratio
\* above 0.  On more observations the model leaves it open.
PValueDecimals(p, t) ==
    /\ p # "nan"
    /\ t.n = 2 => t.sign = 0

\* C18 (as claimed): the successful result is rounded to fixed precision:
\* alpha, ar and car to 6 decimal places, the percentages to 4, confidence and
\* p_value to 3, and no floating field (beta, t_statistic) is left unrounded.
C18_FixedPrecision ==
    pc = "done" /\ ~HasError =>
        /\ Decimals(Res.alpha, 6) /\ Decimals(Res.ar, 6) /\ Decimals(Res.car, 6)
        /\ Decimals(Res.ar_percentage, 4) /\ Decimals(Res.car_percentage, 4)
        /\ Res.confidence \in {"0.0", "0<=c<=0.95", "0.95<=c<=0.99", "0.99"}
        /\ Decimals(Res.beta, 6)
        /\ PValueDecimals(Res.p_value, Res.t_statistic)
        /\ TStatDecimals(Res.t_statistic, 6)

\* the fields the result does round: alpha, ar and car to 6 places, beta and
\* the percentages to 4, confidence to 3
RoundedFields ==
    pc = "done" /\ ~HasError =>
        /\ Decimals(Res.alpha, 6) /\ Decimals(Res.ar, 6) /\ Decimals(Res.car, 6)
        /\ Decimals(Res.ar_percentage, 4) /\ Decimals(Res.car_percentage, 4)
        /\ Decimals(Res.beta, 4)
        /\ Res.confidence \in {"0.0", "0<=c<=0.95", "0.95<=c<=0.99", "0.99"}

\* C19: the summary of a result states |event-day AR| * 100 to two decimals,
\* reads 'Statistically significant (p=...)' with the result's p-value exactly
\* when the result's is_significant is true and 'Not statistically
\* significant' otherwise, and carries the outlier warning exactly when the
\* result's is_outlier is true.
C19_Summary ==
    pc = "done" /\ ~HasError =>
        LET sm == Res.summary
            q  == RNorm(RAbs(Get(ar)))
        IN  /\ Decimals(sm.magnitude, 2) /\ sm.magnitude[2] = 100
            /\ 2 * Abs(sm.magnitude[1] * q[2] - 10000 * q[1]) <= q[2]
            /\ Res.is_significant =>
                  sm.significance = <<"Statistically significant (p=", Res.p_value, "). ">>
            /\ ~Res.is_significant =>
                  sm.significance = <<"Not statistically significant. ">>
            /\ sm.outlier_warning <=> Res.is_outlier

\* a significant result on a flagged event day, at the 0.01 level
C19_Witness ==
    /\ pc = "done" /\ ~HasError /\ Res.is_significant /\ Res.is_outlier
    /\ Res.summary.magnitude[1] # 0 /\ significance_level = <<1, 100>>

\* an instance after k steps of a run on which nothing else acts
RECURSIVE Alone(_, _)
Alone(s, k) == IF k = 0 THEN s ELSE StepOf(Alone(s, k - 1), significance_level)

\* an instance as it was constructed
Constructed(s) ==
    Fresh(s.event_date, s.estimation_window_days, s.event_window_days,
          s.stock_src, s.market_src)

\* C20: with the steps of two instances interleaved in any order, each
\* instance is at every moment what it is after the same number of steps of a
\* run alone on its inputs and provider data, and so returns the result of
\* that run.
C20_Independent ==
    other # None =>
        /\ Self = Alone(Constructed(Self), Len(steps))
        /\ Get(other) = Alone(Constructed(Get(other)), Len(Get(other).steps))
        /\ pc = "done" => result = Alone(Constructed(Self), 7).result
        /\ Get(other).pc = "done" =>
              Get(other).result = Alone(Constructed(Get(other)), 7).result

\* both runs are under way on different studies, the second one step behind
C20_Witness ==
    /\ other # None /\ pc = "test" /\ Get(other).pc = "car"
    /\ event_date # Get(other).event_date
    /\ alpha # Get(other).alpha

\* C21: within one run_full_analysis the price provider is called at most once
\* for the instrument and at most once for the market index, the instrument
\* first, and only by the loader; after a provider failure or an empty
\* instrument series the market series is not requested, no call follows, and
\* the run ends with the error record.
C21_NoRetries ==
    /\ calls \in {<<>>, <<"stock">>, <<"stock", "market">>}
    /\ steps = <<>> => calls = <<>>
    /\ steps # <<>> => calls # <<>>
    /\ steps # <<>> /\ (stock_src.raises \/ stock_data = Some(<<>>)) =>
          /\ calls = <<"stock">>
          /\ market_data = None
          /\ pc = "done" /\ HasError /\ steps = <<"fetch">>
    /\ steps # <<>> /\ calls = <<"stock", "market">> /\ market_src.raises =>
          pc = "done" /\ HasError /\ steps = <<"fetch">>
    /\ Len(steps) > 1 => calls = <<"stock", "market">>

\* the provider had market prices, yet after the empty instrument series they
\* were not requested
C21_Witness ==
    /\ pc = "done" /\ calls = <<"stock">> /\ ~stock_src.raises
    /\ market_src.hist # <<>> /\ HasError

\* C22: quick_event_study(ticker, ts, text) returns the record of
\* run_full_analysis of a default-parameter study with one change only: a
\* non-empty text adds an 'event_text' field holding its first 200 characters,
\* to error records too; an empty text adds nothing; every other field is as
\* run_full_analysis returned it.
C22_QuickEventStudy ==
    pc = "returned" =>
        LET text == Get(call).event_text
            ret  == Get(Get(call).ret)
        IN  /\ estimation_window_days = DEFAULT_ESTIMATION_WINDOW
            /\ event_window_days = DEFAULT_EVENT_WINDOW
            /\ \A f \in DOMAIN Res : f \in DOMAIN ret /\ ret[f] = Res[f]
            /\ text = <<>> => DOMAIN ret = DOMAIN Res
            /\ text # <<>> =>
                  /\ DOMAIN ret = DOMAIN Res \cup {"event_text"}
                  /\ Len(ret.event_text) = IF Len(text) < 200 THEN Len(text) ELSE 200
                  /\ \A i \in 1..Len(ret.event_text) : ret.event_text[i] = text[i]

\* an error record came back with a text of more than 200 characters cut to 200
C22_Witness ==
    /\ pc = "returned" /\ HasError /\ Len(Get(call).event_text) > 200
    /\ Len(Get(Get(call).ret).event_text) = 200

\* the values of a series in thousandths
Thousandths(series) == [i \in 1..Len(series) |-> series[i].value[1]]

\* n * sum(x^2) - sum(x)^2: n * (n - 1) times the sample variance
Spread(x) ==
    Len(x) * SumInt([i \in 1..Len(x) |-> x[i] * x[i]]) - SumInt(x) * SumInt(x)

\* at least three observations, all above zero, with a sample standard
\* deviation of at most a fifth of their mean
ConsistentlyPositive(x) ==
    /\ Len(x) >= 3
    /\ \A i \in 1..Len(x) : x[i] > 0
    /\ 25 * Len(x) * Spread(x) <= (Len(x) - 1) * SumInt(x) * SumInt(x)

Stages == <<"fetch", "estimate", "ar", "car", "test", "outlier", "assemble">>

\* stage k of Stages was entered or is the one the run is at
Started(k) == Len(steps) >= k \/ (pc # "done" /\ Len(steps) = k - 1)

\* C24: the stages run strictly forward.  The stages entered so far are the
\* first ones of loader, estimator, abnormal returns, CAR, test, outlier,
\* assembly, each entered once; the estimator starts only after the loader
\* succeeded, the abnormal-return step only with alpha and beta set, the CAR,
\* test and outlier steps only with a non-empty abnormal-return series; the
\* run is either at the stage after the last one entered or has returned, and
\* a run that returned at a failed stage entered no later stage.
C24_StagesForward ==
    /\ Len(steps) <= 7
    /\ \A i \in 1..Len(steps) : steps[i] = Stages[i]
    /\ pc # "done" => Len(steps) < 7 /\ pc = Stages[Len(steps) + 1]
    /\ pc = "done" => result # None /\ steps # <<>>
    /\ Started(2) =>
          /\ stock_data # None /\ market_data # None
          /\ Len(Get(stock_data)) >= 50
          /\ calls = <<"stock", "market">>
    /\ Started(3) => alpha # None /\ beta # None /\ raised = None
    /\ Started(4) =>
          /\ ar_series # None /\ Len(Get(ar_series)) > 0
          /\ ret_ar_series = ar_series
    /\ Started(5) => car # None
    /\ Started(6) => test_results # None
    /\ Started(7) => is_outlier # None
    /\ pc = "done" /\ Len(steps) < 7 =>
          /\ HasError
          /\ Len(steps) \in {1, 2, 3}
          /\ car = None /\ test_results = None /\ is_outlier = None
          /\ Len(steps) < 3 => ret_ar_series = None /\ ar_series = None
          /\ Len(steps) < 2 => est_dates = None /\ alpha = None

\* the estimator failed on loaded data and no later stage ran
C24_Witness ==
    /\ pc = "done" /\ steps = <<"fetch", "estimate">> /\ HasError
    /\ stock_data # None /\ ret_ar_series = None /\ car = None

\* the method the step just called, "" when the step is no direct call
Called == IF call' = None THEN "" ELSE call'[1].op

\* C25: once alpha and beta are set they are frozen: no step of
\* run_full_analysis and no call of calculate_ar, calculate_car,
\* statistical_test, filter_outliers or _generate_summary changes them or fits
\* the regression again, and calculate_ar runs estimate_expected_return
\* exactly when alpha or beta is still unset.
C25_ParametersFrozen ==
    [][/\ alpha # None /\ beta # None /\ Called # "estimate_expected_return" =>
              /\ alpha' = alpha /\ beta' = beta /\ est_dates' = est_dates
              /\ Called # "" => ~call'[1].estimated
       /\ Called = "calculate_ar" =>
              (call'[1].estimated <=> (alpha = None \/ beta = None))
       /\ Called \in {"statistical_test", "filter_outliers", "_generate_summary",
                       "fetch_data"} =>
              alpha' = alpha /\ beta' = beta]_vars

\* calculate_ar was called again on fitted parameters and returned a series
\* without fitting
C25_Witness ==
    /\ Returned("calculate_ar") /\ ~Get(call).estimated
    /\ alpha # None /\ beta # None /\ ar_series # None
    /\ Get(call).ret = Get(ar_series)

\* what the provider returned to fetch_data for a source
RawSeries(src) ==
    History(src, event_date - (estimation_window_days + 20),
            event_date + (event_window_days + 5))

\* the loader has returned true
LoaderSucceeded == Len(steps) >= 2 \/ (Len(steps) = 1 /\ pc # "done")

\* every return of a loaded frame is a number computed from the close of the
\* row and the close of the previous row of its own raw series
OwnReturns(frame, raw) ==
    \A i \in 1..Len(frame) :
        /\ frame[i].return # NaN
        /\ \E k \in 2..Len(raw) :
              /\ raw[k].date = frame[i].date
              /\ raw[k].Close = frame[i].Close
              /\ REq(Get(frame[i].return),
                     <<raw[k].Close - raw[k - 1].Close, raw[k - 1].Close>>)

\* C26 (as claimed): after the loader succeeds the instrument and market
\* return series hold exactly the same dates, all of them present in both raw
\* series, neither holds a NaN return, and each return was computed from the
\* previous observation of its own raw series.
C26_LoaderAligned ==
    LoaderSucceeded =>
        /\ Dates(Get(stock_data)) = Dates(Get(market_data))
        /\ Dates(Get(stock_data)) \subseteq
              Dates(RawSeries(stock_src)) \cap Dates(RawSeries(market_src))
        /\ OwnReturns(Get(stock_data), RawSeries(stock_src))
        /\ OwnReturns(Get(market_data), RawSeries(market_src))

\* what the loader does guarantee: dates of both raw series, no NaN, returns
\* from each series' own previous observation
LoaderOwnReturns ==
    LoaderSucceeded =>
        /\ Dates(Get(stock_data)) \cup Dates(Get(market_data)) \subseteq
              Dates(RawSeries(stock_src)) \cap Dates(RawSeries(market_src))
        /\ OwnReturns(Get(stock_data), RawSeries(stock_src))
        /\ OwnReturns(Get(market_data), RawSeries(market_src))

\* C27 (as claimed): every caller of quick_event_study treats the 'error'
\* field as authoritative: from a record with 'error' no caller takes a numeric
\* field into a signal or a derived result; the event-study fields stay as
\* they were.
C27_ErrorAuthoritative ==
    pc = "stored" /\ "error" \in DOMAIN Get(Get(call).ret) =>
        Get(call).signal.from # "event_study"

\* the callers that do test for 'error': compute_event_study and the
\* prototype's generate_signal
CheckingCallers ==
    pc = "stored" /\ "error" \in DOMAIN Get(Get(call).ret)
        /\ Get(call).caller # "generate_signal" =>
           Get(call).signal.from # "event_study"

\* str.capitalize() of a direction word
Capitalized(w) ==
    CASE w = "positive" -> "Positive"
      [] w = "negative" -> "Negative"
      [] OTHER          -> "Neutral"

\* C28 (as claimed): in every successful result the direction word that opens
\* the summary is the direction field, and both agree with the sign of the
\* reported, rounded 'ar' field: positive iff ar > 0, negative iff ar < 0,
\* neutral iff ar = 0.
C28_DirectionAgrees ==
    pc = "done" /\ ~HasError =>
        /\ Res.summary.direction = Capitalized(Res.direction)
        /\ Res.direction = "positive" <=> Res.ar[1] > 0
        /\ Res.direction = "negative" <=> Res.ar[1] < 0
        /\ Res.direction = "neutral" <=> Res.ar[1] = 0

\* the part that holds: the summary and the field agree whenever the
\* event-day AR is not 0
DirectionAgreesOffZero ==
    pc = "done" /\ ~HasError /\ Get(ar)[1] # 0 =>
        Res.summary.direction = Capitalized(Res.direction)

\* the direction field against the sign of the rounded 'ar' field alone
DirectionOfRoundedAr ==
    pc = "done" /\ ~HasError =>
        /\ Res.direction = "positive" <=> Res.ar[1] > 0
        /\ Res.direction = "negative" <=> Res.ar[1] < 0
        /\ Res.direction = "neutral" <=> Res.ar[1] = 0

\* C29 (as claimed): calculate_car() on a study without an abnormal-return
\* series first computes the series, fitting alpha and beta if needed, and
\* returns its sum without raising for any loaded data, 0 when the event
\* window is empty; before any data is loaded it fails with the 'Data not
\* fetched' ValueError and leaves alpha, beta, ar, car and the series unset.
C29_LazyCar ==
    [][Called = "calculate_car" /\ call'[1].window = None /\ ar_series = None =>
          /\ stock_data # None /\ market_data # None
                /\ Len(Get(stock_data)) >= 50 =>
                /\ call'[1].raises = ""
                /\ alpha' # None /\ beta' # None
                /\ car' = Some(call'[1].ret)
                /\ ar_series' # None =>
                      REq(call'[1].ret, RSum(Get(ar_series')))
                /\ ar_series' = None => call'[1].ret = RZero
          /\ stock_data = None /\ market_data = None =>
                /\ call'[1].raises = "Data not fetched. Call fetch_data() first."
                /\ alpha' = None /\ beta' = None /\ ar' = None /\ car' = None
                /\ ar_series' = None]_vars

\* the parts that hold: without data the ValueError and nothing set; with a
\* series computed by the call, its sum returned and stored
LazyCarWhereSeries ==
    [][Called = "calculate_car" /\ call'[1].window = None /\ ar_series = None =>
          /\ stock_data = None \/ market_data = None =>
                /\ call'[1].raises = "Data not fetched. Call fetch_data() first."
                /\ alpha' = alpha /\ beta' = beta /\ ar' = None /\ car' = car
                /\ ar_series' = None
          /\ ar_series' # None =>
                /\ call'[1].raises = ""
                /\ alpha' # None /\ beta' # None /\ ar' # None
                /\ REq(call'[1].ret, RSum(Get(ar_series')))
                /\ car' = Some(call'[1].ret)
          /\ ar_series' = None => call'[1].raises # "" /\ car' = car]_vars

\* min(1 - p, 0.99) for p < 1 and 0 otherwise, as the interval it falls in
ConfidenceOf(p) ==
    IF p \in {"p=0", "p<0.01"} THEN "0.99"
    ELSE IF p = "0.01<=p<0.05" THEN "0.95<c<=0.99"
    ELSE IF p = "0.05<=p<1" THEN "0<c<=0.95"
    ELSE "0.0"

\* C30: the confidence of every result lies in [0, 0.99]: it is
\* min(1 - p_value, 0.99) when p_value < 1 and 0 otherwise, the empty-series
\* and error cases included; is_significant at the default level implies
\* confidence >= 0.95, and confidence = 0 implies is_significant = false.
C30_ConfidenceRange ==
    /\ Returned("statistical_test") =>
          LET r == Get(call).ret
          IN  /\ r.confidence \in {"0.0", "0<c<=0.95", "0.95<c<=0.99", "0.99"}
              /\ r.confidence = ConfidenceOf(r.p_value)
              /\ ar_series = None \/ Get(ar_series) = <<>> => r.confidence = "0.0"
              /\ r.is_significant /\ Get(call).level = <<5, 100>> =>
                    r.confidence \in {"0.95<c<=0.99", "0.99"}
              /\ r.confidence = "0.0" => ~r.is_significant
    /\ pc = "done" =>
          /\ Res.confidence \in {"0.0", "0<=c<=0.95", "0.95<=c<=0.99", "0.99"}
          /\ HasError => Res.confidence = "0.0" /\ ~Res.is_significant
          /\ ~HasError =>
                /\ Get(test_results).confidence = ConfidenceOf(Res.p_value)
                /\ Res.p_value \in {"p=0", "p<0.01"} <=> Res.confidence = "0.99"
                /\ Res.p_value = "0.01<=p<0.05" <=> Res.confidence = "0.95<=c<=0.99"
                /\ Res.p_value = "0.05<=p<1" <=> Res.confidence = "0<=c<=0.95"
                /\ Res.p_value \in {"p=1", "nan"} <=> Res.confidence = "0.0"
          /\ Res.is_significant /\ significance_level = <<5, 100>> =>
                Res.confidence \in {"0.95<=c<=0.99", "0.99"}
          /\ Res.confidence \in {"0.0", "0<=c<=0.95"} => ~Res.is_significant

\* a p-value of 0 gave the capped confidence 0.99
C30_Witness ==
    /\ Returned("statistical_test") /\ Get(call).ret.p_value = "p=0"
    /\ Get(call).ret.confidence = "0.99" /\ Get(call).ret.is_significant

====
